---- MODULE Spec2Model ----
(***************************************************************************)
(* Persistence core of the TBD Logger extension: the in-memory session     *)
(* buffer and its single-flight flush (flush.ts), the producers that push  *)
(* events (listeners, focus handlers, interruption tracker, deactivate),   *)
(* and StorageManager.flush, the read-decrypt-append-encrypt-write of the  *)
(* per-session log file; and the guardian of StorageManager: the file      *)
(* watchers' reactions to deleted, created and changed log files, the      *)
(* hidden deletion ledger, and the password-checked readers.               *)
(*                                                                         *)
(* Scheduling is JavaScript's: one thread, and a handler runs to its next  *)
(* filesystem await.  An action is one such run.                           *)
(***************************************************************************)
EXTENDS Naturals, Sequences, FiniteSets

VARIABLES
    phase,          \* "loaded" (module loaded, store not initialized), "active", "stopped"
    initialized,    \* StorageManager.initialized && sessionFileUri !== null
    sessionFile,    \* the per-session log file on disk
    sessionBuffer,  \* state.sessionBuffer
    isFlushing,     \* state.isFlushing
    inflight,       \* the flushBuffer calls suspended at an await
    enqueued,       \* history: every event pushed so far, in push order
    faults,         \* history: what went wrong so far ("io", "corrupt", "uninit")
    lastTrigger,    \* what the flushBuffer call of the step just taken did
    lastEnqueue,    \* what the producer of the step just taken did
    lastSettle,     \* how the flushBuffer call that the step just taken ended, ended
    watching,       \* the file watchers of init are registered
    otherLogs,      \* the other *-integrity.log files of the storage directory
    fileIndex,      \* StorageManager.fileIndex: last recorded size per file name
    hiddenLog,      \* the ledger file .tbd_hidden/.undeletable_deletions.log
    hiddenBaks,     \* the hidden_corrupt_<time>.bak files of the hidden directory
    notifications,  \* watcher events not yet delivered to their handler
    reactions,      \* the guardian handlers suspended at an await
    clock,          \* Date.now(), as far as the guardian's timestamps tell events apart
    deletions,      \* history: the external deletions of log files, in order
    lastReaction,   \* what the guardian step just taken completed
    lastResult,     \* what the reader call of the step just taken returned
    storageDir,     \* the storage directory as init lists it: its files by name
    run,            \* init of the running process: how far it is, what it computed
    allocated,      \* history: the session number of each run, and whether its init completed
    corruptBaks,    \* the log_corrupt_<time>.bak files of the storage directory
    archive,        \* .tbd_hidden/archive: the archived copy per log file name
    dateNow,        \* Date.now(), as the focus handlers read it
    focusAwayStartTime, \* state.focusAwayStartTime: <<>> for null, <<t>> for t
    codec,          \* a text on its way through encrypt and decrypt
    instance,       \* SessionInterruptionTracker.instance: 0 for null, else the install call that set it
    trackers,       \* the tracker each install call of this process has made, and how far the call is
    stateFile,      \* .vscode/integrity_state.json
    stateWrites,    \* the writeState calls that nothing awaits and that have not written yet
    trackerRuns     \* history: per process, whether markCleanShutdown ran and the markers logged

\* The guardian's part of the state.
gvars == <<watching, otherLogs, fileIndex, hiddenLog, hiddenBaks, notifications,
           reactions, clock, deletions, lastReaction, lastResult, archive>>

\* The guardian's part without the descriptors of the step just taken.
gstate == <<watching, otherLogs, fileIndex, hiddenLog, hiddenBaks, notifications,
            reactions, clock, deletions, archive>>

\* The part of the state that init's choice of the session file works on.
rvars == <<storageDir, run, allocated, corruptBaks>>

\* The clock and the focus handlers' field, and the codec's text.
xvars == <<dateNow, focusAwayStartTime, codec, instance, trackers, stateFile, stateWrites,
           trackerRuns>>

\* The interruption tracker's part of the state.
tvars == <<instance, trackers, stateFile, stateWrites, trackerRuns>>

vars == <<phase, initialized, sessionFile, sessionBuffer, isFlushing, inflight,
          enqueued, faults, lastTrigger, lastEnqueue, lastSettle, gvars, rvars, xvars>>

memVars == <<sessionBuffer, isFlushing, inflight>>

----------------------------------------------------------------------------
(* Bounds of the model and constants of the program *)

\* Events pushed in one run of the general specification.
MaxEvents == 3

\* Events pushed in one run of the threshold scenario (threshold + 1).
MaxScenarioEvents == 51

\* CONSTANTS.FLUSH_THRESHOLD
FLUSH_THRESHOLD == 50

\* External deletions (of log files and of the ledger) in one run.
MaxDeletions == 2

\* Events pushed in one run of the guardian's specification.
MaxGuardianEvents == 2

\* Events pushed in one run on the failing filesystem.
MaxFailingEvents == 1

\* Runs of the extension on one storage directory.
MaxRuns == 2

\* Calls of SessionInterruptionTracker.install in one process.
MaxInstalls == 2

\* Processes that run the tracker one after the other.
MaxTrackerRuns == 2

\* The largest session number a run of the model can get: a directory that
\* starts with sessions up to 2, and one more per run.
MaxSession == MaxRuns + 2

----------------------------------------------------------------------------
(* Sequences *)

Range(s) == {s[i] : i \in 1..Len(s)}

IsPrefix(s, t) == Len(s) <= Len(t) /\ SubSeq(t, 1, Len(s)) = s

----------------------------------------------------------------------------
(* Events and producers *)

\* The handlers that push onto state.sessionBuffer.
Producers == {"edit", "save", "focus", "regained", "tracker"}

\* The producers the general specification runs: one that checks the
\* threshold (edit; save does the same), one that never calls flushBuffer
\* (focus; regained does the same) and one that always does (tracker).
GeneralProducers == {"edit", "focus", "tracker"}

\* StandardEvent.eventType each producer writes (the edit listener's
\* classification into input/paste/delete/replace is outside this model).
EventTypeOf(p) ==
    CASE p = "edit" -> "input"
      [] p = "save" -> "save"
      [] p = "focus" -> "focusChange"
      [] p = "regained" -> "focusChange"
      [] p = "tracker" -> "focusChange"
      [] p = "deactivate" -> "focusDuration"

\* StandardEvent.fileView, as far as it tells the producers apart.
FileViewOf(p) ==
    CASE p = "regained" -> "Focus Away (Major)"
      [] p = "tracker" -> "[INTERRUPTION]"
      [] OTHER -> "file"

\* The event a producer builds; time stands for the Date.now() timestamp and
\* makes every event distinct.
MakeEvent(p, t) == [time |-> t, eventType |-> EventTypeOf(p), fileView |-> FileViewOf(p)]

----------------------------------------------------------------------------
(* The session log file *)

Absent == [exists |-> FALSE]

\* A file written by encrypt(JSON.stringify(obj)).
Encrypted(obj) == [exists |-> TRUE, readable |-> TRUE, json |-> obj]

\* The object init writes: { sessionHeader, events: [] }.
InitialData == [sessionHeader |-> 1, events |-> <<>>]

\* decrypt + JSON.parse of what readFile returned: the object, or a throw.
DecryptParse(file) ==
    IF file.exists /\ file.readable
    THEN [ok |-> TRUE, history |-> file.json]
    ELSE [ok |-> FALSE]

\* The events array of the file on disk (empty when there is none to read).
DiskEvents ==
    IF DecryptParse(sessionFile).ok THEN DecryptParse(sessionFile).history.events
    ELSE <<>>

----------------------------------------------------------------------------
(* Log file names and sizes *)

\* A file name, as its parts between the '-' signs.  The file of this run:
\* `${safeUser}-${safeProject}-Session${sessionNumber}-integrity.log`.
SessionName == <<"bob", "proj", "Session1", "integrity.log">>

\* The log of another user's session in the same storage directory.
OldName == <<"al", "web", "Session3", "integrity.log">>

OtherNames == {OldName}

\* The files the watcher pattern '*-integrity.log' covers.
LogNames == {SessionName} \cup OtherNames

\* The digits of a part of the form Session<digits> as parseInt(m[1], 10)
\* reads them, 0 for any other part.
MarkerNumber(part) ==
    CASE part = "Session1" -> 1
      [] part = "Session2" -> 2
      [] part = "Session02" -> 2
      [] part = "Session3" -> 3
      [] part = "Session4" -> 4
      [] part = "Session5" -> 5
      [] part = "Session6" -> 6
      [] part = "Session7" -> 7
      [] part = "Session8" -> 8
      [] OTHER -> 0

\* `Session${sessionNumber}`
SessionPart(sessionNumber) ==
    CASE sessionNumber = 1 -> "Session1"
      [] sessionNumber = 2 -> "Session2"
      [] sessionNumber = 3 -> "Session3"
      [] sessionNumber = 4 -> "Session4"
      [] sessionNumber = 5 -> "Session5"
      [] sessionNumber = 6 -> "Session6"
      [] sessionNumber = 7 -> "Session7"
      [] OTHER -> "Session8"

\* getSessionInfo() of the runs, after the replace of the unsafe characters.
safeUser == "bob"
safeProject == "proj"

\* `${safeUser}-${safeProject}-Session${sessionNumber}-integrity.log`
FileNameOf(user, project, sessionNumber) ==
    <<user, project, SessionPart(sessionNumber), "integrity.log">>

\* Names readDirectory can list that are not the name of a run: a log with
\* leading zeros in its number, the log of another user, a backup copy.
PaddedName == <<"bob", "proj", "Session02", "integrity.log">>
OtherUserName == <<"al", "proj", "Session3", "integrity.log">>
BackupName == <<"bob", "proj", "Session4", "integrity.log.bak">>

\* The names of the storage directory in the model.
DirNames ==
    {FileNameOf(safeUser, safeProject, n) : n \in 1..MaxSession}
        \cup {PaddedName, OtherUserName, BackupName}

\* Mutant: the number is not taken from the name.
SessionNumberFromNowhere(name) == 0

\* name.match(/Session(\d+)-/): the first part that is Session<digits> and is
\* followed by a '-'; sessionNumber stays 0 when there is none.
SessionNumberOf(name) ==
    LET hits == {i \in 1..(Len(name) - 1) : MarkerNumber(name[i]) # 0}
    IN  IF hits = {} THEN 0
        ELSE MarkerNumber(name[CHOOSE i \in hits : \A j \in hits : i <= j])

\* Bytes of an encrypted log file with no event, and bytes each event adds.
HeaderBytes == 400
EventBytes == 700

\* stat.size of a log file.
SizeOf(file) ==
    IF ~file.exists THEN 0
    ELSE HeaderBytes + EventBytes * Len(file.json.events)

\* A fileIndex entry, and the absence of one.
NoEntry == [known |-> FALSE]
Indexed(size) == [known |-> TRUE, size |-> size]

\* this.fileIndex.get(name) || { size: 0, mtime: 0 }
RecordedSize(index, name) == IF index[name].known THEN index[name].size ELSE 0

KB == 1024

\* (bytes / unit).toFixed(2) in hundredths, unit being KB times unitKB: the
\* quotient is exact in a double, and toFixed rounds it half up.
Hundredths(bytes, unitKB) ==
    LET unit == KB * unitKB
        rest == bytes % unit
        scaled == 25 * (rest \div 128) + (25 * (rest % 128)) \div 128
    IN  (bytes \div unit) * 100 + (scaled + unitKB) \div (2 * unitKB)

\* A size label: '0 KB' and '1 KB' have no decimals, the others two.
SizeLabel(hundredths, decimals, unit) ==
    [hundredths |-> hundredths, decimals |-> decimals, unit |-> unit]

\* Mutant: '1 KB' is the label of every size below 1024 bytes.
formatSizeAtLeastOneKB(bytes) ==
    IF bytes < KB THEN SizeLabel(100, 0, "KB")
    ELSE IF bytes < KB * KB THEN SizeLabel(Hundredths(bytes, 1), 2, "KB")
    ELSE IF bytes \div KB < KB * KB THEN SizeLabel(Hundredths(bytes, KB), 2, "MB")
    ELSE SizeLabel(Hundredths(bytes, KB * KB), 2, "GB")

\* StorageManager.formatSize
formatSize(bytes) ==
    IF bytes <= 0 THEN SizeLabel(0, 0, "KB")
    ELSE IF bytes < KB THEN SizeLabel(100, 0, "KB")
    ELSE IF bytes < KB * KB THEN SizeLabel(Hundredths(bytes, 1), 2, "KB")
    ELSE IF bytes \div KB < KB * KB THEN SizeLabel(Hundredths(bytes, KB), 2, "MB")
    ELSE SizeLabel(Hundredths(bytes, KB * KB), 2, "GB")

\* Mutant: the recreated file has no events array.
RecreatedDataHeaderOnly(name, deletedAt) ==
    [recreationNotice |-> deletedAt, sessionHeader |-> SessionNumberOf(name)]

\* The file handleLogDeleted writes in place of a deleted one.
RecreatedData(name, deletedAt) ==
    [recreationNotice |-> deletedAt,
     sessionHeader |-> SessionNumberOf(name),
     events |-> <<>>]

\* The content of log file name.
LogFile(name) == IF name = SessionName THEN sessionFile ELSE otherLogs[name]

----------------------------------------------------------------------------
(* The ledger *)

\* What the text of a file parses to: an object with a deletions array, an
\* object without one, an array, a primitive (null, a number, a string), or
\* no JSON at all.
LedgerObject(dels) == [kind |-> "object", deletions |-> dels]
BareObject == [kind |-> "object"]
JsonArray == [kind |-> "array"]
JsonPrimitive == [kind |-> "primitive"]
NotJson == [kind |-> "garbage"]

\* A file whose bytes do not decrypt and read, as UTF-8 text, as value.
Plain(value) == [exists |-> TRUE, readable |-> FALSE, json |-> value]

\* { header: { createdAt, note: 'Deletion activity log' }, deletions: [] }
FreshLedger == Encrypted(LedgerObject(<<>>))

\* try { text = decrypt(data) } catch { text = data.toString('utf8') }, then
\* JSON.parse(text): the value, or a throw.
DecryptOrPlainParse(file) ==
    IF file.json.kind = "garbage" THEN [ok |-> FALSE]
    ELSE [ok |-> TRUE, value |-> file.json]

\* parsed && typeof parsed === 'object' && Array.isArray(parsed.deletions)
IsLedgerShaped(value) == value.kind = "object" /\ "deletions" \in DOMAIN value

\* The deletions list a reader of the ledger gets (decrypt, parse,
\* Array.isArray(obj.deletions) ? obj.deletions : []), <<>> when it gets none.
LedgerDeletions(file) ==
    IF file.exists /\ file.readable /\ IsLedgerShaped(file.json)
    THEN file.json.deletions
    ELSE <<>>

\* The hidden directory as ensureHiddenLog sees and leaves it.
HiddenDir(log, baks) == [log |-> log, baks |-> baks]

\* Mutant: the ledger is created anew whatever is there.
ensureHiddenLogAlwaysFresh(dir, renameOk) == HiddenDir(FreshLedger, dir.baks)

\* StorageManager.ensureHiddenLog on hidden directory dir; renameOk tells
\* whether fs.rename of a bad file works (its failure is swallowed).
ensureHiddenLog(dir, renameOk) ==
    IF ~dir.log.exists THEN HiddenDir(FreshLedger, dir.baks)
    ELSE IF /\ DecryptOrPlainParse(dir.log).ok
            /\ IsLedgerShaped(DecryptOrPlainParse(dir.log).value)
         THEN dir
         ELSE HiddenDir(FreshLedger,
                        IF renameOk THEN dir.baks \cup {dir.log} ELSE dir.baks)

----------------------------------------------------------------------------
(* flushBuffer and StorageManager.flush *)

\* The in-memory state a handler works on; pushed counts the events pushed
\* so far (it dates the drain of a batch).
Mem == [sessionBuffer |-> sessionBuffer, isFlushing |-> isFlushing, inflight |-> inflight,
        pushed |-> Len(enqueued)]

\* state.sessionBuffer.push(ev)
Push(m, ev) == [m EXCEPT !.sessionBuffer = Append(@, ev), !.pushed = @ + 1]

\* StorageManager.flush up to its first await: it returns at once when the
\* manager is not initialized or the batch is empty ("settle": the promise
\* is already resolved), and otherwise suspends in readFile ("read").
StorageFlushEnter(newEvents) ==
    IF ~initialized THEN "settle"
    ELSE IF Len(newEvents) = 0 THEN "settle"
    ELSE "read"

\* Mutant: the guard forgets the single-flight flag.
FlushGuardIgnoresFlag(m) == Len(m.sessionBuffer) = 0

\* Mutant: the guard forgets the empty buffer.
FlushGuardIgnoresEmpty(m) == m.isFlushing

\* The guard of flushBuffer: nothing to do.
FlushGuard(m) == m.isFlushing \/ Len(m.sessionBuffer) = 0

\* What splice(0, length) returns.
Drained(buf) == buf

\* Mutant: the batch is copied, not cut out (slice for splice).
AfterDrainKeeps(buf) == buf

\* What splice(0, length) leaves in the buffer.
AfterDrain(buf) == <<>>

\* flushBuffer up to its await, on the in-memory state m.
FlushBufferEnter(m) ==
    IF FlushGuard(m) THEN m
    ELSE [sessionBuffer |-> AfterDrain(m.sessionBuffer),
          pushed |-> m.pushed,
          isFlushing |-> TRUE,
          inflight |-> m.inflight \cup
              {[pc |-> StorageFlushEnter(Drained(m.sessionBuffer)),
                toSave |-> Drained(m.sessionBuffer),
                toWrite |-> InitialData,
                began |-> m.pushed]}]

\* Mutant: StorageManager.flush throws on an uninitialized manager.
StorageFlushRejectsUninitialized(outcome) == outcome = "noop"

\* The catch of StorageManager.flush logs the error and returns: the promise
\* flushBuffer awaits never rejects.
StorageFlushRejects(outcome) == FALSE

\* Mutant: the buffer is emptied after the await instead of at the drain.
RestoredClearsLate(buf, toSave, outcome) == <<>>

\* Mutant: the batch goes back in front after every flush.
RestoredAlways(buf, toSave, outcome) == toSave \o buf

\* The catch block of flushBuffer: the batch goes back in front.
Restored(buf, toSave, outcome) ==
    IF StorageFlushRejects(outcome) THEN toSave \o buf ELSE buf

\* Mutant: the flag is reset on the success path only.
FlagAfterSettleOnSuccessOnly(outcome) == outcome \notin {"written", "noop"}

\* The finally block of flushBuffer.
FlagAfterSettle(outcome) == FALSE

\* The rest of flushBuffer after its await: catch, finally, return.
Settle(c, outcome) ==
    /\ inflight' = inflight \ {c}
    /\ sessionBuffer' = Restored(sessionBuffer, c.toSave, outcome)
    /\ isFlushing' = FlagAfterSettle(outcome)
    /\ lastSettle' = [outcome |-> outcome, batch |-> c.toSave, began |-> c.began]

\* Mutant: the batch is put in front of the history (unshift for push).
AppendedInFront(history, newEvents) == [history EXCEPT !.events = newEvents \o @]

\* history.events.push(...newEvents)
Appended(history, newEvents) == [history EXCEPT !.events = @ \o newEvents]

----------------------------------------------------------------------------
(* Initial states *)

NoSettle == [outcome |-> "none", batch |-> <<>>, began |-> 0]
NoEnqueue == [producer |-> "none", reached |-> FALSE, flushCalled |-> FALSE]

NoReaction == [kind |-> "none"]

\* No install call has made this tracker.
NoTracker == [pc |-> "none"]

\* A process in which the tracker has logged nothing yet.
NoMarkers == [clean |-> FALSE, markers |-> <<>>]
NoResult == [call |-> "none"]

InitMemory ==
    /\ sessionBuffer = <<>>
    /\ isFlushing = FALSE
    /\ inflight = {}
    /\ enqueued = <<>>
    /\ faults = {}
    /\ lastTrigger = "none"
    /\ lastEnqueue = NoEnqueue
    /\ lastSettle = NoSettle
    /\ hiddenBaks = {}
    /\ notifications = {}
    /\ reactions = {}
    /\ clock = 0
    /\ deletions = <<>>
    /\ lastReaction = NoReaction
    /\ lastResult = NoResult
    /\ run = [pc |-> "none"]
    /\ allocated = <<>>
    /\ corruptBaks = {}
    /\ archive = [name \in LogNames |-> Absent]
    /\ dateNow = 1
    /\ focusAwayStartTime = <<>>
    /\ instance = 0
    /\ trackers = [id \in 1 .. MaxInstalls |-> NoTracker]
    /\ stateFile = Absent
    /\ stateWrites = {}
    /\ trackerRuns = <<NoMarkers>>

\* The fields of a new process, and a storage directory without log files.
InitCommon ==
    /\ InitMemory
    /\ storageDir = [name \in DirNames |-> Absent]
    /\ codec = [stage |-> "none"]

\* The index init builds: the session logs found in the storage directory
\* (all names of the model match /Session\d+-integrity\.log$/) and the new file.
IndexAfterInit(others, created) ==
    [n \in LogNames |->
        IF n = SessionName THEN Indexed(SizeOf(created))
        ELSE IF others[n].exists THEN Indexed(SizeOf(others[n]))
        ELSE NoEntry]

\* An empty storage directory.
NoOtherLogs == [n \in OtherNames |-> Absent]

\* After construction: new StorageManager(), state = { sessionBuffer: [], ... }.
Init ==
    /\ phase = "loaded"
    /\ initialized = FALSE
    /\ sessionFile = Absent
    /\ watching = FALSE
    /\ otherLogs = NoOtherLogs
    /\ fileIndex = [n \in LogNames |-> NoEntry]
    /\ hiddenLog = Absent
    /\ InitCommon

\* After activate: init has created the session file and the ledger (in an
\* environment that allows no file watchers).
InitActive ==
    /\ phase = "active"
    /\ initialized = TRUE
    /\ sessionFile = Encrypted(InitialData)
    /\ watching = FALSE
    /\ otherLogs = NoOtherLogs
    /\ fileIndex = IndexAfterInit(NoOtherLogs, Encrypted(InitialData))
    /\ hiddenLog = FreshLedger
    /\ InitCommon

----------------------------------------------------------------------------
(* Actions *)

\* lastTrigger, lastEnqueue and lastSettle describe the step just taken: a
\* step that calls no flushBuffer, pushes nothing or ends no call resets them.
NoTrigger == lastTrigger' = "none"
NoPush == lastEnqueue' = NoEnqueue
NoEnd == lastSettle' = NoSettle

\* A step in which no guardian handler and no reader runs.
GuardianStill ==
    /\ lastReaction' = NoReaction
    /\ lastResult' = NoResult
    /\ UNCHANGED <<gstate, xvars>>

GuardianIdle == GuardianStill /\ UNCHANGED rvars

\* The watcher's event for a write or a deletion of a log file.
Notified(kind, name) ==
    IF watching THEN notifications \cup {[kind |-> kind, name |-> name]}
    ELSE notifications

SetMem(m) ==
    /\ sessionBuffer' = m.sessionBuffer
    /\ isFlushing' = m.isFlushing
    /\ inflight' = m.inflight

\* What a flushBuffer call on m did.
TriggerResult(m) == IF FlushGuard(m) THEN "refused" ELSE "started"

\* A flush that starts on an uninitialized store drops its batch.
FaultsAfterEnter(m) ==
    IF ~FlushGuard(m) /\ ~initialized THEN faults \cup {"uninit"} ELSE faults

\* StorageManager.init, as far as flush depends on it: the session file is
\* created with an empty events array and the manager becomes initialized.
StorageInit ==
    \E watchersOk, renameOk \in BOOLEAN :
        LET dir == ensureHiddenLog(HiddenDir(hiddenLog, hiddenBaks), renameOk)
        IN  /\ phase = "loaded"
            /\ phase' = "active"
            /\ initialized' = TRUE
            /\ hiddenLog' = dir.log
            /\ hiddenBaks' = dir.baks
            /\ sessionFile' = Encrypted(InitialData)
            /\ fileIndex' = IndexAfterInit(otherLogs, Encrypted(InitialData))
            /\ watching' = watchersOk
            /\ NoTrigger /\ NoPush /\ NoEnd
            /\ lastReaction' = NoReaction
            /\ lastResult' = NoResult
            /\ UNCHANGED <<memVars, enqueued, faults, otherLogs, notifications,
                           reactions, clock, deletions, rvars, archive, xvars>>

\* Whether producer p calls flushBuffer after its push, the buffer then
\* holding len events.
CallsFlush(p, len) ==
    CASE p \in {"edit", "save"} -> len >= FLUSH_THRESHOLD
      [] p = "tracker" -> TRUE
      [] OTHER -> FALSE

\* One producer pushes one event (and calls flushBuffer, if it does).
Produce(p) ==
    LET ev == MakeEvent(p, Len(enqueued) + 1)
        m1 == Push(Mem, ev)
        calls == CallsFlush(p, Len(m1.sessionBuffer))
        m2 == IF calls THEN FlushBufferEnter(m1) ELSE m1
    IN  /\ phase # "stopped"
        /\ SetMem(m2)
        /\ enqueued' = Append(enqueued, ev)
        /\ lastEnqueue' = [producer |-> p,
                           reached |-> Len(m1.sessionBuffer) >= FLUSH_THRESHOLD,
                           flushCalled |-> calls]
        /\ lastTrigger' = IF calls THEN TriggerResult(m1) ELSE "none"
        /\ faults' = IF calls THEN FaultsAfterEnter(m1) ELSE faults
        /\ NoEnd
        /\ UNCHANGED <<phase, initialized, sessionFile>>
        /\ GuardianIdle

\* Mutant: the timer flushes only a buffer that has reached the threshold.
TimerTickAtThresholdOnly ==
    /\ phase = "active"
    /\ Len(sessionBuffer) >= FLUSH_THRESHOLD
    /\ SetMem(FlushBufferEnter(Mem))
    /\ lastTrigger' = TriggerResult(Mem)
    /\ faults' = FaultsAfterEnter(Mem)
    /\ NoPush /\ NoEnd
    /\ UNCHANGED <<phase, initialized, sessionFile, enqueued>>
    /\ GuardianIdle

\* setInterval(() => void flushBuffer(), FLUSH_INTERVAL_MS)
TimerTick ==
    /\ phase = "active"
    /\ SetMem(FlushBufferEnter(Mem))
    /\ lastTrigger' = TriggerResult(Mem)
    /\ faults' = FaultsAfterEnter(Mem)
    /\ NoPush /\ NoEnd
    /\ UNCHANGED <<phase, initialized, sessionFile, enqueued>>
    /\ GuardianIdle

\* A direct call of the exported flushBuffer (the unit tests do this on a
\* store that was never initialized).
DirectFlush ==
    /\ phase = "loaded"
    /\ SetMem(FlushBufferEnter(Mem))
    /\ lastTrigger' = TriggerResult(Mem)
    /\ faults' = FaultsAfterEnter(Mem)
    /\ NoPush /\ NoEnd
    /\ UNCHANGED <<phase, initialized, sessionFile, enqueued>>
    /\ GuardianIdle

\* The promise of a storageManager.flush that returned at once resolves.
SettleNoop ==
    \E c \in inflight :
        /\ c.pc = "settle"
        /\ Settle(c, "noop")
        /\ NoTrigger /\ NoPush
        /\ UNCHANGED <<phase, initialized, sessionFile, enqueued, faults>>
        /\ GuardianIdle

\* readFile resolves; decrypt and parse succeed; the new content is built
\* and writeFile is called.
ReadDone ==
    \E c \in inflight :
        /\ c.pc = "read"
        /\ DecryptParse(sessionFile).ok
        /\ inflight' = (inflight \ {c}) \cup
               {[c EXCEPT !.pc = "write",
                          !.toWrite = Appended(DecryptParse(sessionFile).history, c.toSave)]}
        /\ NoTrigger /\ NoPush /\ NoEnd
        /\ UNCHANGED <<phase, initialized, sessionFile, sessionBuffer, isFlushing,
                       enqueued, faults>>
        /\ GuardianIdle

\* readFile resolves with a file that decrypt or JSON.parse rejects: the
\* catch of StorageManager.flush logs it, and flushBuffer finishes.
ReadUndecryptable ==
    \E c \in inflight :
        /\ c.pc = "read"
        /\ sessionFile.exists
        /\ ~DecryptParse(sessionFile).ok
        /\ Settle(c, "undecryptable")
        /\ NoTrigger /\ NoPush
        /\ UNCHANGED <<phase, initialized, sessionFile, enqueued, faults>>
        /\ GuardianIdle

\* readFile rejects (the filesystem fails).
ReadFail ==
    \E c \in inflight :
        /\ c.pc = "read"
        /\ Settle(c, "readFailed")
        /\ faults' = faults \cup {"io"}
        /\ NoTrigger /\ NoPush
        /\ UNCHANGED <<phase, initialized, sessionFile, enqueued>>
        /\ GuardianIdle

\* writeFile resolves: the file holds the content built at the read.
WriteDone ==
    \E c \in inflight :
        /\ c.pc = "write"
        /\ sessionFile' = Encrypted(c.toWrite)
        /\ Settle(c, "written")
        /\ notifications' =
               Notified(IF sessionFile.exists THEN "change" ELSE "create", SessionName)
        /\ NoTrigger /\ NoPush
        /\ lastReaction' = NoReaction
        /\ lastResult' = NoResult
        /\ UNCHANGED <<phase, initialized, enqueued, faults, watching, otherLogs,
                       fileIndex, hiddenLog, hiddenBaks, reactions, clock, deletions,
                       rvars, archive, xvars>>

\* writeFile rejects (the filesystem fails).
WriteFail ==
    \E c \in inflight :
        /\ c.pc = "write"
        /\ Settle(c, "writeFailed")
        /\ faults' = faults \cup {"io"}
        /\ NoTrigger /\ NoPush
        /\ UNCHANGED <<phase, initialized, sessionFile, enqueued>>
        /\ GuardianIdle

\* Something outside the extension overwrites the session file with bytes
\* that do not decrypt.
ExternalCorrupt ==
    /\ sessionFile.exists
    /\ sessionFile.readable
    /\ sessionFile' = [sessionFile EXCEPT !.readable = FALSE]
    /\ faults' = faults \cup {"corrupt"}
    /\ NoTrigger /\ NoPush /\ NoEnd
    /\ UNCHANGED <<phase, initialized, memVars, enqueued>>
    /\ GuardianIdle

\* deactivate(): the tracker's clean-shutdown marker and its flushBuffer call,
\* the focusDuration event when a file is focused, and a last flushBuffer call.
Deactivate ==
    \E focused \in BOOLEAN :
        LET marker == MakeEvent("tracker", Len(enqueued) + 1)
            m1 == Push(Mem, marker)
            m2 == FlushBufferEnter(m1)
            dur == MakeEvent("deactivate", Len(enqueued) + 2)
            m3 == IF focused THEN Push(m2, dur) ELSE m2
            m4 == FlushBufferEnter(m3)
            pushed == IF focused THEN <<marker, dur>> ELSE <<marker>>
        IN  /\ phase = "active"
            /\ phase' = "stopped"
            /\ SetMem(m4)
            /\ enqueued' = enqueued \o pushed
            /\ lastEnqueue' = [producer |-> "deactivate",
                               reached |-> Len(m3.sessionBuffer) >= FLUSH_THRESHOLD,
                               flushCalled |-> TRUE]
            /\ lastTrigger' = IF "started" \in {TriggerResult(m1), TriggerResult(m3)}
                              THEN "started" ELSE "refused"
            /\ NoEnd
            /\ UNCHANGED <<initialized, sessionFile, faults>>
            /\ GuardianIdle

----------------------------------------------------------------------------
(* The guardian: watcher reactions and the ledger *)

\* The name the hidden watcher reports for the ledger file.
LedgerName == <<".undeletable_deletions.log">>

\* A step in which no producer, flushBuffer call or init runs.
FlushStill ==
    /\ NoTrigger /\ NoPush /\ NoEnd
    /\ UNCHANGED <<phase, initialized, memVars, enqueued, xvars>>

FlushIdle == FlushStill /\ UNCHANGED rvars

\* Log file name gets content file.
SetLogFile(name, file) ==
    IF name = SessionName
    THEN sessionFile' = file /\ UNCHANGED otherLogs
    ELSE otherLogs' = [otherLogs EXCEPT ![name] = file] /\ UNCHANGED sessionFile

\* The entry handleLogDeleted builds for file name.
DeletionEntry(name, now, index) ==
    [deletedFile |-> name,
     deletedAt |-> now,
     lastKnownSize |-> formatSize(RecordedSize(index, name))]

\* The entry handleHiddenLogDeleted builds for file name of the hidden directory.
HiddenNote(name, now) ==
    [note |-> "Hidden log file deleted", file |-> name, deletedAt |-> now]

\* Mutant: the catch block creates an empty ledger.
SingleEntryLedgerEmpty(entry) == LedgerObject(<<>>)

\* The catch block of appendToHiddenLog: a new ledger with the single entry.
SingleEntryLedger(entry) == LedgerObject(<<entry>>)

\* if (!Array.isArray(obj.deletions)) obj.deletions = []; obj.deletions.push(entry),
\* as JSON.stringify then writes it: an array keeps its elements only, so the
\* deletions property set on it is not written.
AppendedEntry(value, entry) ==
    IF value.kind = "array" THEN value
    ELSE IF "deletions" \in DOMAIN value
         THEN [value EXCEPT !.deletions = Append(@, entry)]
         ELSE LedgerObject(<<entry>>)

\* appendToHiddenLog from the end of its readFile to its writeFile call: what
\* it writes, and whether from the catch block.  A missing file makes readFile
\* reject; text that is no JSON leaves the default object; a primitive makes
\* the property access or assignment throw.
AppendPlan(file, entry) ==
    IF ~file.exists THEN [toWrite |-> SingleEntryLedger(entry), fallback |-> TRUE]
    ELSE IF ~DecryptOrPlainParse(file).ok
         THEN [toWrite |-> AppendedEntry(LedgerObject(<<>>), entry), fallback |-> FALSE]
    ELSE IF DecryptOrPlainParse(file).value.kind = "primitive"
         THEN [toWrite |-> SingleEntryLedger(entry), fallback |-> TRUE]
    ELSE [toWrite |-> AppendedEntry(DecryptOrPlainParse(file).value, entry),
          fallback |-> FALSE]

\* A handler suspended in the readFile of appendToHiddenLog.
Reaction(kind, name, entry, recorded) ==
    [kind |-> kind, name |-> name, entry |-> entry, recorded |-> recorded,
     pc |-> "ledgerRead", toWrite |-> NotJson, fallback |-> FALSE, appended |-> FALSE]

\* What a completed reaction reports.
Completed(r, recreated) ==
    [kind |-> r.kind, name |-> r.name, entry |-> r.entry, recorded |-> r.recorded,
     appended |-> r.appended, fallback |-> r.fallback, recreated |-> recreated,
     at |-> r.pc]

Pending(kind, name) == [kind |-> kind, name |-> name] \in notifications

Delivered(kind, name) == notifications \ {[kind |-> kind, name |-> name]}

\* Something outside the extension deletes log file name.
ExternalDelete(name) ==
    /\ phase = "active"
    /\ watching
    /\ LogFile(name).exists
    /\ ~Pending("delete", name)
    /\ Len(deletions) < MaxDeletions
    /\ SetLogFile(name, Absent)
    /\ notifications' = Notified("delete", name)
    /\ deletions' = Append(deletions, name)
    /\ FlushIdle
    /\ lastReaction' = NoReaction
    /\ lastResult' = NoResult
    /\ UNCHANGED <<faults, watching, fileIndex, hiddenLog, hiddenBaks, reactions, clock,
                       archive>>

\* watcher.onDidDelete: handleLogDeleted up to the readFile of appendToHiddenLog.
LogDeletedStart(name) ==
    /\ Pending("delete", name)
    /\ notifications' = Delivered("delete", name)
    /\ reactions' = reactions \cup
           {Reaction("logDeleted", name, DeletionEntry(name, clock, fileIndex),
                     RecordedSize(fileIndex, name))}
    /\ clock' = clock + 1
    /\ FlushIdle
    /\ lastReaction' = NoReaction
    /\ lastResult' = NoResult
    /\ UNCHANGED <<sessionFile, faults, watching, otherLogs, fileIndex, hiddenLog,
                   hiddenBaks, deletions, archive>>

\* Something outside the extension deletes the ledger file.
ExternalDeleteLedger ==
    /\ phase = "active"
    /\ watching
    /\ hiddenLog.exists
    /\ ~Pending("hiddenDelete", LedgerName)
    /\ Len(deletions) < MaxDeletions
    /\ hiddenLog' = Absent
    /\ notifications' = Notified("hiddenDelete", LedgerName)
    /\ deletions' = Append(deletions, LedgerName)
    /\ faults' = faults \cup {"ledgerDeleted"}
    /\ FlushIdle
    /\ lastReaction' = NoReaction
    /\ lastResult' = NoResult
    /\ UNCHANGED <<sessionFile, watching, otherLogs, fileIndex, hiddenBaks, reactions, clock,
                       archive>>

\* hiddenWatcher.onDidDelete: handleHiddenLogDeleted, for the file of the
\* hidden directory that the event names, up to the readFile of
\* appendToHiddenLog.
HiddenDeleted(name) ==
    /\ Pending("hiddenDelete", name)
    /\ notifications' = Delivered("hiddenDelete", name)
    /\ reactions' = reactions \cup
           {Reaction("hiddenDeleted", name, HiddenNote(name, clock), 0)}
    /\ clock' = clock + 1
    /\ FlushIdle
    /\ lastReaction' = NoReaction
    /\ lastResult' = NoResult
    /\ UNCHANGED <<sessionFile, faults, watching, otherLogs, fileIndex, hiddenLog,
                   hiddenBaks, deletions, archive>>

\* The event names the ledger file.
HiddenDeletedStart == HiddenDeleted(LedgerName)

\* The backup of logger_settings.json that init keeps in the hidden directory.
SettingsBackupName == <<"logger_settings.bak">>

\* The direct children of the hidden directory, which the pattern '*' of the
\* hidden watcher covers, besides the ledger (the quarantined ledgers
\* hidden_corrupt_<time>.bak and the archive directory are further ones).
OtherHiddenNames == {SettingsBackupName}

\* Something outside the extension deletes another file of the hidden
\* directory (each once in a run).
ExternalDeleteHidden(name) ==
    /\ phase = "active"
    /\ watching
    /\ name \notin Range(deletions)
    /\ Len(deletions) < MaxDeletions
    /\ notifications' = Notified("hiddenDelete", name)
    /\ deletions' = Append(deletions, name)
    /\ FlushIdle
    /\ lastReaction' = NoReaction
    /\ lastResult' = NoResult
    /\ UNCHANGED <<sessionFile, faults, watching, otherLogs, fileIndex, hiddenLog,
                   hiddenBaks, reactions, clock, archive>>

\* The reaction of the hidden watcher to the deletion of such a file.
OtherHiddenDeleted(name) == name \in OtherHiddenNames /\ HiddenDeleted(name)

\* The ledger contents something outside the extension may leave in place of
\* the ledger: plain text of a ledger, an array, an object without deletions,
\* a primitive, bytes that are no text.
LedgerSamples ==
    {Plain(LedgerObject(<<>>)), Plain(JsonArray), Encrypted(BareObject),
     Plain(JsonPrimitive), Plain(NotJson)}

\* Something outside the extension overwrites the ledger file (once in a run).
ExternalWriteLedger ==
    \E file \in LedgerSamples :
        /\ phase = "active"
        /\ "ledgerWritten" \notin faults
        /\ hiddenLog' = file
        /\ faults' = faults \cup {"ledgerWritten"}
        /\ FlushIdle
        /\ lastReaction' = NoReaction
        /\ lastResult' = NoResult
        /\ UNCHANGED <<sessionFile, watching, otherLogs, fileIndex, hiddenBaks,
                       notifications, reactions, clock, deletions, archive>>

\* The readFile of appendToHiddenLog settles: the new content is built and
\* writeFile is called, from the try block or from the catch block.
LedgerReadDone ==
    \E r \in reactions :
        /\ r.pc = "ledgerRead"
        /\ reactions' = (reactions \ {r}) \cup
               {[r EXCEPT !.pc = "ledgerWrite",
                          !.toWrite = AppendPlan(hiddenLog, r.entry).toWrite,
                          !.fallback = AppendPlan(hiddenLog, r.entry).fallback]}
        /\ FlushIdle
        /\ lastReaction' = NoReaction
        /\ lastResult' = NoResult
        /\ UNCHANGED <<sessionFile, faults, watching, otherLogs, fileIndex, hiddenLog,
                       hiddenBaks, notifications, clock, deletions, archive>>

\* Mutant: a rejected append ends the handler.
AfterAppendThrows(r, worked) ==
    IF ~worked THEN {}
    ELSE IF r.kind = "logDeleted" THEN {[r EXCEPT !.pc = "recreate", !.appended = worked]}
    ELSE {}

\* What follows appendToHiddenLog in its caller: handleLogDeleted reads
\* package.json and calls writeFile for the recreated file, whether the
\* append worked or not; handleHiddenLogDeleted returns when it worked and
\* writes a single-entry ledger itself when it did not.
AfterAppend(r, worked) ==
    IF r.kind = "logDeleted" THEN {[r EXCEPT !.pc = "recreate", !.appended = worked]}
    ELSE IF worked THEN {}
    ELSE {[r EXCEPT !.pc = "lastWrite", !.toWrite = SingleEntryLedger(r.entry)]}

\* The writeFile of appendToHiddenLog resolves.
LedgerWriteDone ==
    \E r \in reactions :
        /\ r.pc = "ledgerWrite"
        /\ hiddenLog' = Encrypted(r.toWrite)
        /\ reactions' = (reactions \ {r}) \cup AfterAppend(r, TRUE)
        /\ lastReaction' = IF AfterAppend(r, TRUE) = {}
                           THEN Completed([r EXCEPT !.appended = TRUE], FALSE)
                           ELSE [kind |-> "appended", name |-> r.name, entry |-> r.entry,
                                 fallback |-> r.fallback, at |-> r.pc]
        /\ FlushIdle
        /\ lastResult' = NoResult
        /\ UNCHANGED <<sessionFile, faults, watching, otherLogs, fileIndex, hiddenBaks,
                       notifications, clock, deletions, archive>>

\* The writeFile of appendToHiddenLog rejects: from the try block the catch
\* block writes the single-entry ledger; from the catch block the call rejects.
LedgerWriteFail ==
    \E r \in reactions :
        /\ r.pc = "ledgerWrite"
        /\ reactions' = (reactions \ {r}) \cup
               (IF r.fallback THEN AfterAppend(r, FALSE)
                ELSE {[r EXCEPT !.toWrite = SingleEntryLedger(r.entry),
                                !.fallback = TRUE]})
        /\ faults' = faults \cup {"io"}
        /\ FlushIdle
        /\ lastReaction' = NoReaction
        /\ lastResult' = NoResult
        /\ UNCHANGED <<sessionFile, watching, otherLogs, fileIndex, hiddenLog, hiddenBaks,
                       notifications, clock, deletions, archive>>

\* The writeFile in the catch of handleHiddenLogDeleted settles; its failure
\* is swallowed.
HiddenLastWrite ==
    \E r \in reactions, ok \in BOOLEAN :
        /\ r.pc = "lastWrite"
        /\ hiddenLog' = IF ok THEN Encrypted(r.toWrite) ELSE hiddenLog
        /\ reactions' = reactions \ {r}
        /\ lastReaction' = Completed([r EXCEPT !.appended = ok], FALSE)
        /\ faults' = faults \cup {"io"}
        /\ FlushIdle
        /\ lastResult' = NoResult
        /\ UNCHANGED <<sessionFile, watching, otherLogs, fileIndex, hiddenBaks,
                       notifications, clock, deletions, archive>>

\* Mutant: the reaction ends without writing the file.
RecreateSkipped ==
    \E r \in reactions :
        /\ r.pc = "recreate"
        /\ fileIndex' = [fileIndex EXCEPT ![r.name] = NoEntry]
        /\ reactions' = reactions \ {r}
        /\ lastReaction' = Completed(r, TRUE)
        /\ FlushIdle
        /\ lastResult' = NoResult
        /\ UNCHANGED <<sessionFile, faults, watching, otherLogs, hiddenLog, hiddenBaks,
                       notifications, clock, deletions, archive>>

\* The writeFile of the recreated file resolves; stat sets the index entry and
\* the last statement of handleLogDeleted deletes it.
RecreateDone ==
    \E r \in reactions :
        /\ r.pc = "recreate"
        /\ SetLogFile(r.name, Encrypted(RecreatedData(r.name, r.entry.deletedAt)))
        /\ fileIndex' = [fileIndex EXCEPT ![r.name] = NoEntry]
        /\ notifications' =
               Notified(IF LogFile(r.name).exists THEN "change" ELSE "create", r.name)
        /\ reactions' = reactions \ {r}
        /\ lastReaction' = Completed(r, TRUE)
        /\ FlushIdle
        /\ lastResult' = NoResult
        /\ UNCHANGED <<faults, watching, hiddenLog, hiddenBaks, clock, deletions, archive>>

\* The writeFile of the recreated file rejects: the catch swallows it and the
\* index entry is deleted.
RecreateFail ==
    \E r \in reactions :
        /\ r.pc = "recreate"
        /\ fileIndex' = [fileIndex EXCEPT ![r.name] = NoEntry]
        /\ reactions' = reactions \ {r}
        /\ lastReaction' = Completed(r, FALSE)
        /\ faults' = faults \cup {"io"}
        /\ FlushIdle
        /\ lastResult' = NoResult
        /\ UNCHANGED <<sessionFile, watching, otherLogs, hiddenLog, hiddenBaks,
                       notifications, clock, deletions, archive>>

\* Mutant: the index entry is set once the archive copy is written.
IndexAfterTouchIfArchived(index, name, file, archived) ==
    IF file.exists /\ archived THEN [index EXCEPT ![name] = Indexed(SizeOf(file))]
    ELSE index

\* const stat = await fs.stat(uri); this.fileIndex.set(name, { size, mtime }):
\* stat of a file that is gone throws, and the outer catch swallows it.
IndexAfterTouch(index, name, file, archived) ==
    IF file.exists THEN [index EXCEPT ![name] = Indexed(SizeOf(file))]
    ELSE index

\* try { data = readFile(uri); writeFile(archiveUri, data) } catch {}: the
\* archive after the handler, archived telling whether both calls worked.
ArchiveAfterTouch(copies, name, file, archived) ==
    IF file.exists /\ archived THEN [copies EXCEPT ![name] = file]
    ELSE copies

\* watcher.onDidCreate, watcher.onDidChange: handleLogCreated and
\* handleLogChanged, which have the same body.
LogTouched(kind, name) ==
    \E archived \in BOOLEAN :
        /\ Pending(kind, name)
        /\ notifications' = Delivered(kind, name)
        /\ fileIndex' = IndexAfterTouch(fileIndex, name, LogFile(name), archived)
        /\ archive' = ArchiveAfterTouch(archive, name, LogFile(name), archived)
        /\ FlushIdle
        /\ lastReaction' = [kind |-> "touched", event |-> kind, name |-> name,
                            statOk |-> LogFile(name).exists, archived |-> archived]
        /\ lastResult' = NoResult
        /\ UNCHANGED <<sessionFile, faults, watching, otherLogs, hiddenLog, hiddenBaks,
                       reactions, clock, deletions>>

\* readFile of the session file rejects because the file is gone: the catch
\* of StorageManager.flush logs it, and flushBuffer finishes.
ReadMissing ==
    \E c \in inflight :
        /\ c.pc = "read"
        /\ ~sessionFile.exists
        /\ Settle(c, "missing")
        /\ NoTrigger /\ NoPush
        /\ UNCHANGED <<phase, initialized, sessionFile, enqueued, faults>>
        /\ GuardianIdle

----------------------------------------------------------------------------
(* Specifications *)

IoSteps == SettleNoop \/ ReadDone \/ ReadUndecryptable \/ WriteDone

\* The general specification: every producer, every trigger, filesystem
\* failures and outside corruption, on a few events.
Next ==
    \/ StorageInit
    \/ \E p \in GeneralProducers : Len(enqueued) < MaxEvents /\ Produce(p)
    \/ TimerTick
    \/ DirectFlush
    \/ Len(enqueued) < MaxEvents /\ Deactivate
    \/ IoSteps
    \/ ReadFail
    \/ WriteFail
    \/ ExternalCorrupt

Spec == Init /\ [][Next]_vars

----------------------------------------------------------------------------
(* The threshold scenario *)

\* The producers the scenario lets push the next event: a save or an input
\* first, any listener or handler for the event that brings the buffer to
\* the threshold when nothing was flushed before, the tracker's marker right
\* after it, and inputs everywhere else.
ScenarioAllowed(p) ==
    CASE Len(enqueued) = 0 -> p \in {"save", "edit"}
      [] Len(enqueued) = FLUSH_THRESHOLD - 1 -> p \in {"edit", "save", "focus", "regained"}
      [] Len(enqueued) = FLUSH_THRESHOLD -> p \in {"edit", "tracker"}
      [] OTHER -> p = "edit"

\* The running extension on a store that works: producers, the timer,
\* deactivate, and reads and writes that succeed, for as many events as it
\* takes to cross the threshold.
NextThreshold ==
    \/ \E p \in Producers :
           Len(enqueued) < MaxScenarioEvents /\ ScenarioAllowed(p) /\ Produce(p)
    \/ TimerTick
    \/ Len(enqueued) >= FLUSH_THRESHOLD - 1 /\ Len(enqueued) < MaxScenarioEvents /\ Deactivate
    \/ ReadDone
    \/ WriteDone

SpecThreshold == InitActive /\ [][NextThreshold]_vars

----------------------------------------------------------------------------
(* The running extension under fair scheduling *)

\* The running extension on a store that works: producers, the timer, and
\* reads and writes that succeed.
NextLive ==
    \/ \E p \in GeneralProducers : Len(enqueued) < MaxEvents /\ Produce(p)
    \/ TimerTick
    \/ ReadDone
    \/ WriteDone

\* setInterval keeps firing while the extension is active, and a pending
\* readFile or writeFile completes.
Fairness ==
    /\ WF_vars(TimerTick)
    /\ WF_vars(ReadDone)
    /\ WF_vars(WriteDone)

SpecLive == InitActive /\ [][NextLive]_vars /\ Fairness

----------------------------------------------------------------------------
(* The guardian's specification *)

\* A tick of the flush timer that finds events in the buffer.
GuardianTick == sessionBuffer # <<>> /\ TimerTick

\* The log of an earlier session of another user, one event long.
OldLog == Encrypted([sessionHeader |-> 3, events |-> <<MakeEvent("edit", 0)>>])

\* After activate in an environment with file watchers, the storage directory
\* holding one other log.
InitGuardian ==
    /\ phase = "active"
    /\ initialized = TRUE
    /\ sessionFile = Encrypted(InitialData)
    /\ watching = TRUE
    /\ otherLogs = [n \in OtherNames |-> OldLog]
    /\ fileIndex = IndexAfterInit([n \in OtherNames |-> OldLog], Encrypted(InitialData))
    /\ hiddenLog = FreshLedger
    /\ InitCommon

\* The running extension with its watchers on a filesystem that works:
\* outside deletions of log files, the guardian's reactions to them, and the
\* flush of a few events (timer ticks that find a non-empty buffer).
NextGuardian ==
    \/ \E name \in LogNames : ExternalDelete(name)
    \/ \E name \in LogNames : LogDeletedStart(name)
    \/ LedgerReadDone
    \/ LedgerWriteDone
    \/ RecreateDone
    \/ \E kind \in {"create", "change"}, name \in LogNames : LogTouched(kind, name)
    \/ Len(enqueued) < MaxGuardianEvents /\ Produce("edit")
    \/ GuardianTick
    \/ ReadDone
    \/ ReadMissing
    \/ WriteDone

SpecGuardian == InitGuardian /\ [][NextGuardian]_vars

\* The same, the session log being the only file that is deleted.
NextSessionLog ==
    \/ ExternalDelete(SessionName)
    \/ LogDeletedStart(SessionName)
    \/ LedgerReadDone
    \/ LedgerWriteDone
    \/ RecreateDone
    \/ Len(enqueued) < MaxGuardianEvents /\ Produce("edit")
    \/ GuardianTick
    \/ ReadDone
    \/ ReadMissing
    \/ WriteDone

\* A delivered watcher event is handled, a pending readFile or writeFile
\* settles, and setInterval keeps firing.
FairnessGuardian ==
    /\ WF_vars(LogDeletedStart(SessionName))
    /\ WF_vars(LedgerReadDone)
    /\ WF_vars(LedgerWriteDone)
    /\ WF_vars(RecreateDone)
    /\ WF_vars(GuardianTick)
    /\ WF_vars(ReadDone)
    /\ WF_vars(ReadMissing)
    /\ WF_vars(WriteDone)

SpecGuardianLive == InitGuardian /\ [][NextSessionLog]_vars /\ FairnessGuardian

\* The ledger under everything that can happen to it: outside deletions and
\* writes of the ledger file, deletions of log files, the reactions to both,
\* and writes that fail.
NextLedger ==
    \/ \E name \in LogNames : ExternalDelete(name)
    \/ \E name \in LogNames : LogDeletedStart(name)
    \/ ExternalDeleteLedger
    \/ HiddenDeletedStart
    \/ ExternalWriteLedger
    \/ LedgerReadDone
    \/ LedgerWriteDone
    \/ LedgerWriteFail
    \/ HiddenLastWrite
    \/ RecreateDone
    \/ RecreateFail

SpecLedger == InitGuardian /\ [][NextLedger]_vars

\* The hidden directory: outside deletions of the ledger and of the other
\* files in it, the hidden watcher's reactions, and writes that fail.
NextHidden ==
    \/ ExternalDeleteLedger
    \/ \E name \in OtherHiddenNames : ExternalDeleteHidden(name)
    \/ HiddenDeletedStart
    \/ \E name \in OtherHiddenNames : OtherHiddenDeleted(name)
    \/ LedgerReadDone
    \/ LedgerWriteDone
    \/ LedgerWriteFail
    \/ HiddenLastWrite

SpecHidden == InitGuardian /\ [][NextHidden]_vars

\* The store and the guardian on a filesystem that fails: every readFile and
\* writeFile of flush and of the reactions can reject, the files are deleted
\* and the session file corrupted from outside.
NextFailing ==
    \/ \E name \in LogNames : ExternalDelete(name)
    \/ \E name \in LogNames : LogDeletedStart(name)
    \/ ExternalDeleteLedger
    \/ HiddenDeletedStart
    \/ LedgerReadDone
    \/ LedgerWriteDone
    \/ LedgerWriteFail
    \/ HiddenLastWrite
    \/ RecreateDone
    \/ RecreateFail
    \/ \E kind \in {"create", "change"}, name \in LogNames : LogTouched(kind, name)
    \/ Len(enqueued) < MaxFailingEvents /\ Produce("edit")
    \/ GuardianTick
    \/ ReadDone
    \/ ReadUndecryptable
    \/ ReadFail
    \/ ReadMissing
    \/ WriteDone
    \/ WriteFail
    \/ ExternalCorrupt

SpecFailing == InitGuardian /\ [][NextFailing]_vars

----------------------------------------------------------------------------
(* ensureHiddenLog over the states a run can find the ledger in *)

\* A deletion entry of an earlier run.
EarlierEntry == DeletionEntry(OldName, 0, [n \in LogNames |-> NoEntry])

\* The states init can find the ledger file in: none, ledgers written by
\* earlier runs, and what something outside the extension has left.
LedgerStates ==
    {Absent, FreshLedger, Encrypted(LedgerObject(<<EarlierEntry>>)),
     Plain(LedgerObject(<<EarlierEntry>>)), Encrypted(JsonArray),
     Encrypted(JsonPrimitive)} \cup LedgerSamples

\* A run starts: the hidden directory holds the quarantined files of earlier
\* runs, and the ledger file is in one of its states.
InitEnsure ==
    /\ phase = "loaded"
    /\ initialized = FALSE
    /\ sessionFile = Absent
    /\ watching = FALSE
    /\ otherLogs = NoOtherLogs
    /\ fileIndex = [n \in LogNames |-> NoEntry]
    /\ hiddenLog \in LedgerStates
    /\ InitCommon

\* await this.ensureHiddenLog() in init.
EnsureHiddenLog ==
    \E renameOk \in BOOLEAN :
        LET dir == ensureHiddenLog(HiddenDir(hiddenLog, hiddenBaks), renameOk)
        IN  /\ hiddenLog' = dir.log
            /\ hiddenBaks' = dir.baks
            /\ lastReaction' = [kind |-> "ensured", renameOk |-> renameOk,
                                before |-> HiddenDir(hiddenLog, hiddenBaks)]
            /\ FlushIdle
            /\ lastResult' = NoResult
            /\ UNCHANGED <<sessionFile, faults, watching, otherLogs, fileIndex,
                           notifications, reactions, clock, deletions, archive>>

\* Between two runs the ledger file gets into another of its states.
LedgerFound ==
    \E file \in LedgerStates :
        /\ hiddenLog' = file
        /\ FlushIdle
        /\ lastReaction' = NoReaction
        /\ lastResult' = NoResult
        /\ UNCHANGED <<sessionFile, faults, watching, otherLogs, fileIndex, hiddenBaks,
                       notifications, reactions, clock, deletions, archive>>

NextEnsure == EnsureHiddenLog \/ LedgerFound

SpecEnsure == InitEnsure /\ [][NextEnsure]_vars

----------------------------------------------------------------------------
(* The password-checked readers *)

\* const SECRET_PASSPHRASE = 'password'
SECRET_PASSPHRASE == "password"

\* The passwordAttempt values a caller passes: the passphrase, another
\* string, the empty string.
Passwords == {"password", "wrong", ""}

\* Mutant: the empty attempt is let through.
PasswordAcceptedOrEmpty(attempt) == attempt = SECRET_PASSPHRASE \/ attempt = ""

\* !(passwordAttempt !== SECRET_PASSPHRASE)
PasswordAccepted(attempt) == attempt = SECRET_PASSPHRASE

\* this.hiddenLogUri is set by init.
HiddenLogUriSet == phase # "loaded"

\* How a reader call ended: throw new Error(message) or return value; read
\* tells whether the call got as far as its readFile.
Thrown(call, attempt, message, read) ==
    [call |-> call, password |-> attempt, ok |-> FALSE, message |-> message,
     read |-> read]

Returned(call, attempt, value, read) ==
    [call |-> call, password |-> attempt, ok |-> TRUE, value |-> value, read |-> read]

\* The strings the readers return: '' and the decrypted text of a file.
EmptyText == [kind |-> "empty"]
TextOf(file) == [kind |-> "text", json |-> file.json]

\* readFile and decrypt work on file.
Decrypts(file) == file.exists /\ file.readable

\* StorageManager.retrieveHiddenEntries; isNull tells, for a ledger text that
\* is a JSON primitive, whether it is null (obj.deletions then throws).
retrieveHiddenEntries(attempt, isNull) ==
    LET call == "retrieveHiddenEntries"
    IN  IF ~PasswordAccepted(attempt) THEN Thrown(call, attempt, "Invalid Password", FALSE)
        ELSE IF ~HiddenLogUriSet THEN Returned(call, attempt, <<>>, FALSE)
        ELSE IF \/ ~Decrypts(hiddenLog)
                \/ hiddenLog.json.kind = "garbage"
                \/ hiddenLog.json.kind = "primitive" /\ isNull
        THEN Thrown(call, attempt, "Failed to read hidden log", TRUE)
        ELSE Returned(call, attempt, LedgerDeletions(hiddenLog), TRUE)

\* StorageManager.retrieveHiddenLogContent.
retrieveHiddenLogContent(attempt) ==
    LET call == "retrieveHiddenLogContent"
    IN  IF ~PasswordAccepted(attempt) THEN Thrown(call, attempt, "Invalid Password", FALSE)
        ELSE IF ~HiddenLogUriSet THEN Returned(call, attempt, EmptyText, FALSE)
        ELSE IF ~Decrypts(hiddenLog)
        THEN Thrown(call, attempt, "Failed to read hidden log", TRUE)
        ELSE Returned(call, attempt, TextOf(hiddenLog), TRUE)

\* try { return this.decrypt(await readFile(uri)) } catch { throw ... }
ReadAndDecrypt(call, attempt, file) ==
    IF Decrypts(file) THEN Returned(call, attempt, TextOf(file), TRUE)
    ELSE Thrown(call, attempt, "Failed to read or decrypt file.", TRUE)

\* Mutant: the initialized check comes before the password check.
retrieveLogContentInitializedFirst(attempt) ==
    LET call == "retrieveLogContent"
    IN  IF ~initialized THEN Thrown(call, attempt, "Logger not initialized", FALSE)
        ELSE IF ~PasswordAccepted(attempt)
        THEN Thrown(call, attempt, "Invalid Password", FALSE)
        ELSE ReadAndDecrypt(call, attempt, sessionFile)

\* StorageManager.retrieveLogContent (sessionFileUri is set when initialized is).
retrieveLogContent(attempt) ==
    LET call == "retrieveLogContent"
    IN  IF ~PasswordAccepted(attempt) THEN Thrown(call, attempt, "Invalid Password", FALSE)
        ELSE IF ~initialized THEN Thrown(call, attempt, "Logger not initialized", FALSE)
        ELSE ReadAndDecrypt(call, attempt, sessionFile)

\* StorageManager.retrieveLogContentForUri on log file name.
retrieveLogContentForUri(attempt, name) ==
    LET call == "retrieveLogContentForUri"
    IN  IF ~PasswordAccepted(attempt) THEN Thrown(call, attempt, "Invalid Password", FALSE)
        ELSE ReadAndDecrypt(call, attempt, LogFile(name))

\* A reader call, from its entry to its return or throw, changes nothing.
ReaderCall ==
    /\ lastReaction' = NoReaction
    /\ FlushIdle
    /\ UNCHANGED <<sessionFile, faults, gstate>>

RetrieveHiddenEntries ==
    \E attempt \in Passwords, isNull \in BOOLEAN :
        /\ lastResult' = retrieveHiddenEntries(attempt, isNull)
        /\ ReaderCall

RetrieveHiddenLogContent ==
    \E attempt \in Passwords :
        /\ lastResult' = retrieveHiddenLogContent(attempt)
        /\ ReaderCall

RetrieveLogContent ==
    \E attempt \in Passwords :
        /\ lastResult' = retrieveLogContent(attempt)
        /\ ReaderCall

RetrieveLogContentForUri ==
    \E attempt \in Passwords, name \in LogNames :
        /\ lastResult' = retrieveLogContentForUri(attempt, name)
        /\ ReaderCall

\* Something outside the extension leaves the ledger file in another state
\* while the extension runs.
LedgerReplaced == phase = "active" /\ LedgerFound

\* A store that is constructed and then initialized, in a storage directory
\* holding the log of an earlier session; the readers are called at any time,
\* and the files they read are changed and deleted from outside.
InitReaders ==
    /\ phase = "loaded"
    /\ initialized = FALSE
    /\ sessionFile = Absent
    /\ watching = FALSE
    /\ otherLogs = [n \in OtherNames |-> OldLog]
    /\ fileIndex = [n \in LogNames |-> NoEntry]
    /\ hiddenLog = Absent
    /\ InitCommon

NextReaders ==
    \/ StorageInit
    \/ LedgerReplaced
    \/ ExternalCorrupt
    \/ \E name \in LogNames : ExternalDelete(name)
    \/ RetrieveHiddenEntries
    \/ RetrieveHiddenLogContent
    \/ RetrieveLogContent
    \/ RetrieveLogContentForUri

SpecReaders == InitReaders /\ [][NextReaders]_vars

----------------------------------------------------------------------------
(* init over the runs of the extension: the session number and the file *)

\* Mutant: the user and the project are not part of the pattern.
MatchesAnyUser(name) ==
    Len(name) = 4 /\ MarkerNumber(name[3]) # 0 /\ name[4] = "integrity.log"

\* name.match(new RegExp(`^${prefix}(\\d+)-integrity\\.log$`)) with
\* prefix = `${safeUser}-${safeProject}-Session`
MatchesPattern(name) ==
    /\ Len(name) = 4
    /\ name[1] = safeUser
    /\ name[2] = safeProject
    /\ MarkerNumber(name[3]) # 0
    /\ name[4] = "integrity.log"

\* The files of directory dir, as readDirectory lists them.
Listed(dir) == {name \in DOMAIN dir : dir[name].exists}

\* let maxSession = 0; for (const name of fileNames) { ... if (n > maxSession)
\* maxSession = n }
MaxSessionIn(fileNames) ==
    LET numbers == {MarkerNumber(name[3]) : name \in {f \in fileNames : MatchesPattern(f)}}
    IN  IF numbers = {} THEN 0
        ELSE CHOOSE n \in numbers : \A k \in numbers : k <= n

\* The log file a run creates: its header carries the session number.
NewLog(sessionNumber) == Encrypted([sessionHeader |-> sessionNumber, events |-> <<>>])

\* A log file whose bytes decrypt to text that is no JSON.
Unparsable == Encrypted(NotJson)

\* A log file whose bytes do not decrypt.
Undecryptable == [exists |-> TRUE, readable |-> FALSE, json |-> NotJson]

\* decrypt and JSON.parse of init's integrity check work on file.
Verifies(file) == Decrypts(file) /\ file.json # NotJson

\* No init has started in this process.
NoRun == [pc |-> "none"]

\* Mutant: the file that fails the check is not kept.
QuarantineDropped(baks, name, file, now) == baks

\* fs.rename(sessionFileUri, `log_corrupt_${Date.now()}.bak`): the .bak files
\* of the storage directory after the rename of file, found at name.
Quarantined(baks, name, file, now) ==
    baks \cup {[from |-> name, file |-> file, at |-> now]}

\* init up to the end of its readDirectory: the hidden ledger is ensured, the
\* directory is listed and the session number and file name are computed.
InitList ==
    \E renameOk \in BOOLEAN :
        LET hidden == ensureHiddenLog(HiddenDir(hiddenLog, hiddenBaks), renameOk)
            sessionNumber == MaxSessionIn(Listed(storageDir)) + 1
        IN  /\ phase = "loaded"
            /\ run = NoRun
            /\ Len(allocated) < MaxRuns
            /\ sessionNumber <= MaxSession
            /\ hiddenLog' = hidden.log
            /\ hiddenBaks' = hidden.baks
            /\ run' = [pc |-> "listed", sessionNumber |-> sessionNumber,
                       name |-> FileNameOf(safeUser, safeProject, sessionNumber),
                       fileNames |-> Listed(storageDir), found |-> Absent]
            /\ NoTrigger /\ NoPush /\ NoEnd
            /\ lastReaction' = NoReaction
            /\ lastResult' = NoResult
            /\ UNCHANGED <<phase, initialized, sessionFile, memVars, enqueued, faults,
                           watching, otherLogs, fileIndex, notifications, reactions,
                           clock, deletions, storageDir, allocated, corruptBaks,
                           archive, xvars>>

\* The files another process can leave at the path between the listing and
\* the stat of init.
RacedFiles == {NewLog(0), Unparsable, Undecryptable, Encrypted(JsonPrimitive)}

\* Something outside this process creates a file at the computed path after
\* the directory was listed.
CreatedMeanwhile ==
    \E file \in RacedFiles :
        /\ run.pc = "listed"
        /\ ~storageDir[run.name].exists
        /\ storageDir' = [storageDir EXCEPT ![run.name] = file]
        /\ FlushStill
        /\ GuardianStill
        /\ UNCHANGED <<sessionFile, faults, run, allocated, corruptBaks>>

\* The rest of init with a filesystem that works: the file at the path is
\* verified, a file that fails is renamed to log_corrupt_<time>.bak, the new
\* file is written where there is none, the watchers are registered.
InitDone ==
    \E watchersOk \in BOOLEAN :
        LET found == storageDir[run.name]
            kept == found.exists /\ Verifies(found)
        IN  /\ run.pc = "listed"
            /\ storageDir' = IF kept THEN storageDir
                             ELSE [storageDir EXCEPT ![run.name] = NewLog(run.sessionNumber)]
            /\ corruptBaks' = IF found.exists /\ ~kept
                              THEN Quarantined(corruptBaks, run.name, found, Len(allocated))
                              ELSE corruptBaks
            /\ run' = [run EXCEPT !.pc = "done", !.found = found]
            /\ allocated' = Append(allocated, [sessionNumber |-> run.sessionNumber,
                                               completed |-> TRUE])
            /\ phase' = "active"
            /\ initialized' = TRUE
            /\ watching' = watchersOk
            /\ NoTrigger /\ NoPush /\ NoEnd
            /\ lastReaction' = NoReaction
            /\ lastResult' = NoResult
            /\ UNCHANGED <<sessionFile, memVars, enqueued, faults, otherLogs, fileIndex,
                           hiddenLog, hiddenBaks, notifications, reactions, clock,
                           deletions, archive, xvars>>

\* The rename of a file that fails the check, or the writeFile of the new
\* file, rejects: init throws and the store stays uninitialized.
InitThrows ==
    \E renamed \in BOOLEAN :
        LET found == storageDir[run.name]
            bad == found.exists /\ ~Verifies(found)
        IN  /\ run.pc = "listed"
            /\ ~(found.exists /\ Verifies(found))
            /\ renamed => bad
            /\ storageDir' = IF renamed THEN [storageDir EXCEPT ![run.name] = Absent]
                             ELSE storageDir
            /\ corruptBaks' = IF renamed
                              THEN Quarantined(corruptBaks, run.name, found, Len(allocated))
                              ELSE corruptBaks
            /\ run' = [run EXCEPT !.pc = "failed", !.found = found]
            /\ allocated' = Append(allocated, [sessionNumber |-> run.sessionNumber,
                                               completed |-> FALSE])
            /\ faults' = faults \cup {"io"}
            /\ FlushStill
            /\ GuardianStill
            /\ UNCHANGED sessionFile

\* The process ends (VS Code closes or crashes); the next run is a new
\* process with a new StorageManager.
ProcessEnds ==
    /\ run.pc \in {"done", "failed"}
    /\ run' = NoRun
    /\ phase' = "loaded"
    /\ initialized' = FALSE
    /\ watching' = FALSE
    /\ NoTrigger /\ NoPush /\ NoEnd
    /\ lastReaction' = NoReaction
    /\ lastResult' = NoResult
    /\ UNCHANGED <<sessionFile, memVars, enqueued, faults, otherLogs, fileIndex,
                   hiddenLog, hiddenBaks, notifications, reactions, clock, deletions,
                   storageDir, allocated, corruptBaks, archive, xvars>>

\* A file of the storage directory is deleted while the extension is not
\* running.
DeletedBetweenRuns ==
    \E name \in DirNames :
        /\ run = NoRun
        /\ storageDir[name].exists
        /\ Len(deletions) < MaxDeletions
        /\ storageDir' = [storageDir EXCEPT ![name] = Absent]
        /\ deletions' = Append(deletions, name)
        /\ FlushStill
        /\ lastReaction' = NoReaction
        /\ lastResult' = NoResult
        /\ UNCHANGED <<sessionFile, faults, watching, otherLogs, fileIndex, hiddenLog,
                       hiddenBaks, notifications, reactions, clock, run, allocated,
                       corruptBaks, archive>>

\* The storage directories a first run can find: any of the names that are
\* not names of a run, and the logs of earlier sessions up to some number.
InitialDirs ==
    {[name \in DirNames |->
         IF name \in extra THEN NewLog(MarkerNumber(name[3]))
         ELSE IF \E n \in 1..last : name = FileNameOf(safeUser, safeProject, n)
              THEN NewLog(MarkerNumber(name[3]))
              ELSE Absent] :
        extra \in SUBSET {PaddedName, OtherUserName, BackupName}, last \in 0..1}

\* After construction, in one of these directories.
InitRuns ==
    /\ phase = "loaded"
    /\ initialized = FALSE
    /\ sessionFile = Absent
    /\ watching = FALSE
    /\ otherLogs = NoOtherLogs
    /\ fileIndex = [n \in LogNames |-> NoEntry]
    /\ hiddenLog = Absent
    /\ storageDir \in InitialDirs
    /\ InitMemory
    /\ codec = [stage |-> "none"]

NextRuns ==
    \/ InitList
    \/ CreatedMeanwhile
    \/ InitDone
    \/ InitThrows
    \/ ProcessEnds
    \/ DeletedBetweenRuns

SpecRuns == InitRuns /\ [][NextRuns]_vars

\* The runs on a directory from which nothing is deleted.
NextRunsKept == InitList \/ CreatedMeanwhile \/ InitDone \/ InitThrows \/ ProcessEnds

SpecRunsKept == InitRuns /\ [][NextRunsKept]_vars

----------------------------------------------------------------------------
(* Claims on the general specification *)

\* No flushBuffer call is suspended at an await and nothing waits in the buffer.
Quiescent == sessionBuffer = <<>> /\ inflight = {}

\* The events the suspended flushBuffer calls hold, as one set.
InFlightEvents == UNION {Range(c.toSave) : c \in inflight}

FailedOutcomes == {"readFailed", "undecryptable", "writeFailed"}

\* C1: when enqueues are followed by flushBuffer calls that have all
\* completed, with the store initialized before any flush began, no
\* filesystem failure and no outside change to the file, the events array on
\* disk is the sequence of enqueued events in enqueue order.
C1_FlushedInEnqueueOrder ==
    (faults = {} /\ Quiescent) => DiskEvents = enqueued

\* Three events were written by at least two flushes, and nothing went wrong.
C1_Witness ==
    /\ faults = {}
    /\ Quiescent
    /\ Len(enqueued) >= 3
    /\ lastSettle.outcome = "written"
    /\ Len(lastSettle.batch) < Len(enqueued)

\* C2: a step whose flushBuffer call comes while isFlushing is true or the
\* buffer is empty changes neither the flag, nor the drained batches, nor the
\* file, and leaves the buffer as the step's own push (if any) made it.
C2_RefusedCallChangesNothing ==
    [][(/\ lastTrigger' # "none"
        /\ isFlushing \/ (sessionBuffer = <<>> /\ enqueued' = enqueued)) =>
         /\ isFlushing' = isFlushing
         /\ inflight' = inflight
         /\ sessionFile' = sessionFile
         /\ sessionBuffer' = sessionBuffer \o
                SubSeq(enqueued', Len(enqueued) + 1, Len(enqueued'))]_vars

\* The timer called flushBuffer while a flush was in progress and events waited.
C2_Witness ==
    /\ lastTrigger = "refused"
    /\ lastEnqueue = NoEnqueue
    /\ isFlushing
    /\ sessionBuffer # <<>>

\* C3: at most one flushBuffer call at a time holds a drained batch with its
\* storageManager.flush call outstanding.
C3_SingleFlight == Cardinality(inflight) <= 1

\* A call triggered by the threshold was refused while the flush that the
\* timer had started held its batch between read and write.
C3_Witness ==
    /\ lastTrigger = "refused"
    /\ lastEnqueue.reached
    /\ lastEnqueue.flushCalled
    /\ \E c \in inflight : c.pc = "write"

\* C4: when the append fails (read, decrypt, parse or write), the drained
\* batch is back at the front of the buffer when flushBuffer returns.
C4_FailedBatchRestored ==
    lastSettle.outcome \in FailedOutcomes => IsPrefix(lastSettle.batch, sessionBuffer)

\* C5: isFlushing is false whenever no flushBuffer call is in flight, and in
\* particular right after a call has ended, however it ended.
C5_FlagCleared ==
    /\ inflight = {} => ~isFlushing
    /\ lastSettle.outcome # "none" => ~isFlushing

\* A flush whose write failed has ended, and the flag is down.
C5_Witness ==
    /\ lastSettle.outcome = "writeFailed"
    /\ ~isFlushing
    /\ inflight = {}

\* The events of s are pairwise different.
NoDuplicates(s) == \A i, j \in 1..Len(s) : s[i] = s[j] => i = j

\* C6: an event pushed while a flush is in flight is not in that flush's
\* batch and is in the buffer when that flush has written; and nothing that
\* waits in the buffer or in a drained batch is on disk already, nor is any
\* event on disk twice, so that a later flush writes it exactly once.
C6_LateEventsWrittenOnce ==
    /\ \A c \in inflight : \A e \in Range(c.toSave) : e.time <= c.began
    /\ \A c \in inflight : \A e \in Range(sessionBuffer) : e \notin Range(c.toSave)
    /\ lastSettle.outcome = "written" =>
           sessionBuffer = SubSeq(enqueued, lastSettle.began + 1, Len(enqueued))
    /\ NoDuplicates(DiskEvents)
    /\ Range(DiskEvents) \cap (Range(sessionBuffer) \cup InFlightEvents) = {}

\* A flush has written its batch, and the events pushed while it was in
\* flight wait in the buffer.
C6_Witness ==
    /\ lastSettle.outcome = "written"
    /\ lastSettle.began < Len(enqueued)
    /\ sessionBuffer # <<>>
    /\ DiskEvents # <<>>

\* C9: a flushBuffer call made on an uninitialized store ends without an
\* error and without a write: the flag is down, the batch is neither on disk
\* nor back in the buffer, and the buffer holds only what was pushed after
\* the call began (nothing, when nothing was).
C9_UninitializedFlushDropsBatch ==
    lastSettle.outcome = "noop" =>
        /\ ~isFlushing
        /\ inflight = {}
        /\ DiskEvents = <<>>
        /\ sessionBuffer = SubSeq(enqueued, lastSettle.began + 1, Len(enqueued))

\* A call on an uninitialized store with a non-empty buffer has ended, and
\* nothing was pushed meanwhile.
C9_Witness ==
    /\ lastSettle.outcome = "noop"
    /\ ~initialized
    /\ Len(lastSettle.batch) >= 2
    /\ sessionBuffer = <<>>
    /\ ~isFlushing

\* C10: an append that finds the session file undecryptable still writes its
\* batch: when it has ended the file is readable and ends with the batch.
C10_UndecryptableAppendKeepsBatch ==
    lastSettle.outcome = "undecryptable" =>
        /\ DecryptParse(sessionFile).ok
        /\ Len(DiskEvents) >= Len(lastSettle.batch)
        /\ SubSeq(DiskEvents, Len(DiskEvents) - Len(lastSettle.batch) + 1, Len(DiskEvents))
               = lastSettle.batch

----------------------------------------------------------------------------
(* Claims on the threshold scenario and on the fair specification *)

\* The example of the specification: a save event followed by 49 inputs.
IsExampleRun ==
    /\ Len(enqueued) = FLUSH_THRESHOLD
    /\ enqueued[1].eventType = "save"
    /\ \A i \in 2..Len(enqueued) : enqueued[i].eventType = "input"

\* The example's result: once its flushes have completed the file holds the
\* 50 events, the save event first.
C7_Example ==
    (IsExampleRun /\ Quiescent) =>
        /\ Len(DiskEvents) = FLUSH_THRESHOLD
        /\ DiskEvents[1].eventType = "save"

\* C7: a push by any producer that brings the buffer to the threshold or
\* above calls flushBuffer; and the example run ends with 50 events on disk,
\* the save event first.
C7_ThresholdTriggersFlush ==
    /\ lastEnqueue.reached => lastEnqueue.flushCalled
    /\ C7_Example

\* C8: with the store initialized and a filesystem that works, every event
\* pushed is eventually on disk, the timer and the pending reads and writes
\* being scheduled fairly.
C8_EventuallyWritten ==
    \A i \in 1..MaxEvents :
        (Len(enqueued) >= i) ~> (Len(enqueued) >= i /\ enqueued[i] \in Range(DiskEvents))

\* Events that no producer flushed (focus changes, far below the threshold)
\* are all on disk.
C8_Witness ==
    /\ Len(enqueued) >= 2
    /\ \A i \in 1..Len(enqueued) : enqueued[i].fileView = "file"
    /\ \E i \in 1..Len(enqueued) : enqueued[i].eventType = "focusChange"
    /\ DiskEvents = enqueued

----------------------------------------------------------------------------
(* Claims on the guardian and the ledger *)

\* How many places of the ledger's deletions list hold entry.
TimesRecorded(entry) ==
    Cardinality({i \in 1..Len(LedgerDeletions(hiddenLog)) :
                    LedgerDeletions(hiddenLog)[i] = entry})

\* C11: when the reaction to the deletion of a log file has completed, the
\* ledger holds exactly one entry for that deletion: it names the file, and
\* its size label is formatSize of the size the index held for the file (of
\* 0 when it held none).
C11_DeletionRecordedOnce ==
    lastReaction.kind = "logDeleted" =>
        /\ TimesRecorded(lastReaction.entry) = 1
        /\ lastReaction.entry.deletedFile = lastReaction.name
        /\ lastReaction.entry.lastKnownSize = formatSize(lastReaction.recorded)

\* The session number a log file name carries in front of 'integrity.log'.
NumberInName(name) == MarkerNumber(name[Len(name) - 1])

ReactionsCompleted ==
    /\ SessionName \in Range(deletions)
    /\ Len(deletions) = MaxDeletions
    /\ \A name \in LogNames : ~Pending("delete", name)
    /\ reactions = {}

\* C13: once the reaction to the deletion of the session log has completed
\* and nothing is deleted any more, every event that waits in the buffer is
\* eventually in the events array of the file at the session log's name, the
\* timer and the pending reads and writes being scheduled fairly.
C13_LoggingContinues ==
    \A i \in 1..MaxGuardianEvents :
        (ReactionsCompleted /\ Len(enqueued) >= i /\ enqueued[i] \in Range(sessionBuffer))
            ~> (Len(enqueued) >= i /\ enqueued[i] \in Range(DiskEvents))

\* An event pushed after the recreation has been appended to the recreated file.
C13_Witness ==
    /\ ReactionsCompleted
    /\ lastSettle.outcome = "written"
    /\ "recreationNotice" \in DOMAIN sessionFile.json
    /\ DiskEvents # <<>>
    /\ DiskEvents = lastSettle.batch

\* C14: when the reaction to the deletion of the ledger file has completed
\* (its last write having worked, and nothing outside having written the
\* ledger), a ledger file is in place that holds the note of that deletion
\* once; it holds only that note when the reaction wrote it from a catch block.
C14_LedgerDeletionNoted ==
    (/\ lastReaction.kind = "hiddenDeleted"
     /\ lastReaction.appended
     /\ "ledgerWritten" \notin faults) =>
        /\ hiddenLog.exists
        /\ hiddenLog.readable
        /\ lastReaction.entry.note = "Hidden log file deleted"
        /\ lastReaction.entry.file = LedgerName
        /\ TimesRecorded(lastReaction.entry) = 1
        /\ lastReaction.fallback => LedgerDeletions(hiddenLog) = <<lastReaction.entry>>

\* The ledger was deleted and the reaction, finding no file to read, has
\* created a new ledger with the note.
C14_Witness ==
    /\ lastReaction.kind = "hiddenDeleted"
    /\ lastReaction.appended
    /\ lastReaction.fallback
    /\ faults = {"ledgerDeleted"}
    /\ LedgerDeletions(hiddenLog) = <<lastReaction.entry>>

\* The ledger file decrypts to an object with a deletions array.
ValidLedger(file) == file.exists /\ file.readable /\ IsLedgerShaped(file.json)

\* The files of the hidden directory that ensureHiddenLog can touch.
HiddenFiles == HiddenDir(hiddenLog, hiddenBaks)

\* C15: ensureHiddenLog creates a ledger with an empty deletions list when
\* there is none, leaves a valid ledger and the files of the hidden directory
\* as they are, and changes nothing when it is called again on what it left.
C15_EnsureIdempotent ==
    lastReaction.kind = "ensured" =>
        /\ ~lastReaction.before.log.exists =>
               /\ hiddenLog = FreshLedger
               /\ LedgerDeletions(hiddenLog) = <<>>
               /\ hiddenBaks = lastReaction.before.baks
        /\ ValidLedger(lastReaction.before.log) => HiddenFiles = lastReaction.before
        /\ \A again \in BOOLEAN : ensureHiddenLog(HiddenFiles, again) = HiddenFiles

\* A ledger with an entry of an earlier run went through ensureHiddenLog.
C15_Witness ==
    /\ lastReaction.kind = "ensured"
    /\ ValidLedger(lastReaction.before.log)
    /\ LedgerDeletions(hiddenLog) = <<EarlierEntry>>
    /\ hiddenBaks # {}

\* C16: a ledger file that is there but does not decrypt, or decrypts to
\* something without a deletions array, is renamed aside by ensureHiddenLog
\* (the rename working) and replaced by a ledger with an empty deletions
\* list.
C16_BadLedgerQuarantined ==
    (/\ lastReaction.kind = "ensured"
     /\ lastReaction.renameOk
     /\ lastReaction.before.log.exists
     /\ ~ValidLedger(lastReaction.before.log)) =>
        /\ hiddenLog = FreshLedger
        /\ lastReaction.before.log \in hiddenBaks

\* The step just taken is a return of appendToHiddenLog without error.
AppendReturned == lastReaction.kind # "none" /\ lastReaction.kind # "ensured"
                      /\ lastReaction.at = "ledgerWrite"

\* C17: when appendToHiddenLog(entry) has returned without error, the ledger
\* file exists and its deletions list holds entry; it holds only entry when
\* the ledger was written from the catch block.
C17_AppendRecordsEntry ==
    AppendReturned =>
        /\ hiddenLog.exists
        /\ TimesRecorded(lastReaction.entry) = 1
        /\ lastReaction.fallback => LedgerDeletions(hiddenLog) = <<lastReaction.entry>>

\* C18: the ledger file staying readable and nothing outside writing it, every
\* write of the ledger extends its deletions list: the list before the write
\* is a prefix of the list after it.
C18_LedgerAppendOnly ==
    [][hiddenLog' # hiddenLog =>
           IsPrefix(LedgerDeletions(hiddenLog), LedgerDeletions(hiddenLog'))]_vars

----------------------------------------------------------------------------
(* Claims on the readers *)

HiddenReaders == {"retrieveHiddenEntries", "retrieveHiddenLogContent"}

\* This store has created no ledger and none is there.
LedgerNeverCreated == ~HiddenLogUriSet /\ ~hiddenLog.exists

LogReaders == {"retrieveLogContent", "retrieveLogContentForUri"}

\* C20: a call of retrieveLogContent or retrieveLogContentForUri with a wrong
\* password throws 'Invalid Password' without reading any file, whatever the
\* state of the store and the file; retrieveLogContent with the passphrase on
\* an uninitialized store throws 'Logger not initialized'.
C20_LogReadersCheckPassword ==
    lastResult.call \in LogReaders =>
        /\ lastResult.password # SECRET_PASSPHRASE =>
               /\ ~lastResult.ok
               /\ lastResult.message = "Invalid Password"
               /\ ~lastResult.read
        /\ /\ lastResult.call = "retrieveLogContent"
           /\ lastResult.password = SECRET_PASSPHRASE
           /\ ~initialized
           => ~lastResult.ok /\ lastResult.message = "Logger not initialized"

\* retrieveLogContent was called with the passphrase before init, and threw.
C20_Witness ==
    /\ lastResult.call = "retrieveLogContent"
    /\ lastResult.password = SECRET_PASSPHRASE
    /\ ~initialized
    /\ ~lastResult.ok
    /\ ~lastResult.read

----------------------------------------------------------------------------
(* Claims on init *)

\* name is `${user}-${project}-Session<digits>-integrity.log`.
IsSessionLogOf(name, user, project) ==
    /\ Len(name) = 4
    /\ name[1] = user
    /\ name[2] = project
    /\ MarkerNumber(name[3]) > 0
    /\ name[4] = "integrity.log"

\* The session numbers of the logs of user and project among fileNames.
NumbersOf(fileNames, user, project) ==
    {MarkerNumber(name[3]) : name \in {f \in fileNames : IsSessionLogOf(f, user, project)}}

\* init has written a new file at the path it computed.
CreatedByInit ==
    run.pc = "done" /\ ~(run.found.exists /\ Verifies(run.found))

\* C21: the session number init computes is N + 1, N being the largest
\* session number among the listed files named after the user and the project
\* (0 when there is none); the header of the file init writes carries the
\* number its name carries.
C21_NextSessionNumber ==
    run.pc # "none" =>
        LET numbers == NumbersOf(run.fileNames, safeUser, safeProject)
            N == run.sessionNumber - 1
        IN  /\ run.sessionNumber >= 1
            /\ \A k \in numbers : k <= N
            /\ N = 0 \/ N \in numbers
            /\ run.name = FileNameOf(safeUser, safeProject, run.sessionNumber)
            /\ CreatedByInit =>
                   /\ storageDir[run.name].json.sessionHeader = run.sessionNumber
                   /\ SessionNumberOf(run.name) = run.sessionNumber

\* init created session 3 in a directory that held the user's sessions 1 and
\* 02 and a higher-numbered log of another user.
C21_Witness ==
    /\ CreatedByInit
    /\ run.sessionNumber = 3
    /\ {FileNameOf(safeUser, safeProject, 1), PaddedName, OtherUserName} \subseteq run.fileNames
    /\ storageDir[run.name] = NewLog(3)

\* The runs whose init completed, in order.
CompletedRuns == {i \in DOMAIN allocated : allocated[i].completed}

\* C22: the session number of a run is greater than the session number of
\* every earlier run of the same user and project.
C22_SessionNumbersIncrease ==
    \A i, j \in CompletedRuns :
        i < j => allocated[i].sessionNumber < allocated[j].sessionNumber

\* C23: when init has completed, the file at the computed path decrypts and
\* parses; a file found there that did not is kept as a log_corrupt .bak file,
\* and the file in its place is new, with the session header and no events.
C23_SessionFileVerified ==
    run.pc = "done" =>
        /\ storageDir[run.name].exists
        /\ Verifies(storageDir[run.name])
        /\ run.found.exists /\ ~Verifies(run.found) =>
               /\ \E bak \in corruptBaks : bak.from = run.name /\ bak.file = run.found
               /\ storageDir[run.name] = NewLog(run.sessionNumber)

\* init completed after finding an undecryptable file at the path.
C23_Witness ==
    /\ run.pc = "done"
    /\ run.found = Undecryptable
    /\ storageDir[run.name] = NewLog(run.sessionNumber)

----------------------------------------------------------------------------
(* Claims on the append and on failures *)

\* The recreationNotice of a log file's content, "none" when it has none.
NoticeOf(data) ==
    IF "recreationNotice" \in DOMAIN data THEN <<data.recreationNotice>> ELSE <<>>

\* C24: the write of a flush to a session file that decrypts leaves the
\* sessionHeader and the recreationNotice of the file as they were before the
\* write, and the events array is the one before the write with the batch
\* appended at its end.
C24_AppendKeepsHeader ==
    [][lastSettle'.outcome = "written" /\ Decrypts(sessionFile) =>
           /\ sessionFile'.json.sessionHeader = sessionFile.json.sessionHeader
           /\ NoticeOf(sessionFile'.json) = NoticeOf(sessionFile.json)
           /\ sessionFile'.json.events = sessionFile.json.events \o lastSettle'.batch]_vars

\* The statement a handler of the guardian returns from when nothing it
\* awaits throws past it: the writeFile of the recreated file for
\* handleLogDeleted, a write of the ledger for handleHiddenLogDeleted.
LastStep(kind) ==
    IF kind = "logDeleted" THEN {"recreate"} ELSE {"ledgerWrite", "lastWrite"}

\* C25: StorageManager.flush returns normally when its read, decrypt, parse
\* or write fails (the catch of flushBuffer does not run: the buffer is as it
\* was and the flag is cleared), and a reaction of the guardian whose
\* filesystem call fails goes on to its next statement and returns from its
\* last one.
C25_FailuresStayInside ==
    [][/\ lastSettle'.outcome \in FailedOutcomes \cup {"missing"} =>
              sessionBuffer' = sessionBuffer /\ isFlushing' = FALSE
       /\ \A r \in reactions \ reactions' :
              \/ \E next \in reactions' \ reactions :
                     next.kind = r.kind /\ next.name = r.name /\ next.entry = r.entry
              \/ /\ lastReaction'.kind = r.kind
                 /\ "at" \in DOMAIN lastReaction'
                 /\ lastReaction'.name = r.name
                 /\ lastReaction'.at \in LastStep(r.kind)]_vars

\* handleLogDeleted has returned after both writes of the ledger and the
\* write of the recreated file were rejected.
C25_Witness ==
    /\ lastReaction.kind = "logDeleted"
    /\ "at" \in DOMAIN lastReaction
    /\ ~lastReaction.appended
    /\ ~lastReaction.recreated
    /\ lastReaction.at = "recreate"

\* C30: a reaction of the guardian to a create or change notification leaves
\* the log files, the ledger, the event buffer and the isFlushing flag alone;
\* of the index and the archive it changes at most the entries of the file
\* named, and the index entry is the refreshed one also when the archive copy
\* could not be written.
C30_TouchRefreshesIndexOnly ==
    [][lastReaction'.kind = "touched" =>
           /\ UNCHANGED <<sessionFile, otherLogs, hiddenLog, hiddenBaks>>
           /\ UNCHANGED <<sessionBuffer, isFlushing, inflight>>
           /\ \A n \in LogNames \ {lastReaction'.name} :
                  fileIndex'[n] = fileIndex[n] /\ archive'[n] = archive[n]
           /\ lastReaction'.statOk =>
                  fileIndex'[lastReaction'.name] =
                      Indexed(SizeOf(LogFile(lastReaction'.name)))
           /\ ~lastReaction'.archived =>
                  archive'[lastReaction'.name] = archive[lastReaction'.name]]_vars

\* A change of the session log that holds an event was indexed, and its
\* archive copy could not be written.
C30_Witness ==
    /\ lastReaction.kind = "touched"
    /\ lastReaction.event = "change"
    /\ lastReaction.name = SessionName
    /\ lastReaction.statOk
    /\ ~lastReaction.archived
    /\ DiskEvents # <<>>
    /\ fileIndex[SessionName] = Indexed(SizeOf(sessionFile))
    /\ archive[SessionName] # sessionFile

----------------------------------------------------------------------------
(* The focus handlers *)

\* CONSTANTS.FOCUS_THRESHOLD_MS
FOCUS_THRESHOLD_MS == 15000

\* Away periods' worth of time that one run of the focus handlers covers.
MaxAwayPeriods == 2

\* The milliseconds that pass between two calls of the handlers: around the
\* threshold, one below and one above it.
TimeSteps == {FOCUS_THRESHOLD_MS - 1, FOCUS_THRESHOLD_MS, FOCUS_THRESHOLD_MS + 1}

\* The truthiness of state.focusAwayStartTime: null and 0 are falsy.
AwayOpen(start) == start # <<>> /\ start[1] # 0

\* Mutant: every focus-lost event restarts the away period.
FocusLostRestarts(start, currentTime) == <<currentTime>>

\* handleFocusLost: the new state.focusAwayStartTime (the status bar item is
\* outside this model).
FocusLost(start, currentTime) ==
    IF ~AwayOpen(start) THEN <<currentTime>> ELSE start

\* The event handleFocusRegained pushes; String(timeAway) is kept as the
\* number it prints and formatTimestamp(currentTime) as the time it formats.
FocusAwayEvent(currentTime, timeAway) ==
    [time |-> currentTime, flightTime |-> timeAway, eventType |-> "focusChange",
     fileEdit |-> "", fileView |-> "Focus Away (Major)"]

\* Mutant: an away period of exactly the threshold is not major.
FocusRegainedAboveThreshold(start, buffer, currentTime) ==
    IF AwayOpen(start)
    THEN LET timeAway == currentTime - start[1]
         IN  [focusAwayStartTime |-> <<>>,
              sessionBuffer |-> IF timeAway > FOCUS_THRESHOLD_MS
                                THEN Append(buffer, FocusAwayEvent(currentTime, timeAway))
                                ELSE buffer]
    ELSE [focusAwayStartTime |-> start, sessionBuffer |-> buffer]

\* handleFocusRegained: the new state.focusAwayStartTime and state.sessionBuffer.
FocusRegained(start, buffer, currentTime) ==
    IF AwayOpen(start)
    THEN LET timeAway == currentTime - start[1]
         IN  [focusAwayStartTime |-> <<>>,
              sessionBuffer |-> IF timeAway >= FOCUS_THRESHOLD_MS
                                THEN Append(buffer, FocusAwayEvent(currentTime, timeAway))
                                ELSE buffer]
    ELSE [focusAwayStartTime |-> start, sessionBuffer |-> buffer]

\* What a step of the focus handlers leaves alone.
FocusFrame ==
    /\ NoTrigger /\ NoEnd
    /\ lastReaction' = NoReaction
    /\ lastResult' = NoResult
    /\ UNCHANGED <<phase, initialized, sessionFile, isFlushing, inflight, faults,
                   gstate, rvars, codec, tvars>>

\* The listener of onDidChangeWindowState calls handleFocusLost.
HandleFocusLost ==
    /\ phase = "active"
    /\ focusAwayStartTime' = FocusLost(focusAwayStartTime, dateNow)
    /\ lastEnqueue' = [producer |-> "lost", reached |-> FALSE, flushCalled |-> FALSE]
    /\ UNCHANGED <<sessionBuffer, enqueued, dateNow>>
    /\ FocusFrame

\* The listener of onDidChangeWindowState calls handleFocusRegained, which
\* calls no flushBuffer.
HandleFocusRegained ==
    LET after == FocusRegained(focusAwayStartTime, sessionBuffer, dateNow)
    IN  /\ phase = "active"
        /\ focusAwayStartTime' = after.focusAwayStartTime
        /\ sessionBuffer' = after.sessionBuffer
        /\ enqueued' = enqueued \o SubSeq(after.sessionBuffer, Len(sessionBuffer) + 1,
                                          Len(after.sessionBuffer))
        /\ lastEnqueue' = [producer |-> "regained",
                           reached |-> Len(after.sessionBuffer) >= FLUSH_THRESHOLD,
                           flushCalled |-> FALSE]
        /\ UNCHANGED dateNow
        /\ FocusFrame

\* Time passes between two calls.
TimePasses ==
    /\ dateNow <= MaxAwayPeriods * FOCUS_THRESHOLD_MS
    /\ \E d \in TimeSteps : dateNow' = dateNow + d
    /\ NoPush
    /\ UNCHANGED <<sessionBuffer, enqueued, focusAwayStartTime>>
    /\ FocusFrame

NextFocus ==
    \/ HandleFocusLost
    \/ HandleFocusRegained
    \/ TimePasses

\* The focus handlers of an activated extension, and the clock.
SpecFocus == InitActive /\ [][NextFocus]_vars

----------------------------------------------------------------------------
(* Claims on the focus handlers *)

LastHandler(name) == lastEnqueue.producer = name

\* C28: handleFocusLost opens an away period only when none is open: called
\* while one is open it keeps the start set by the first focus-lost event,
\* and in either case it leaves the session buffer as it was.
C28_FocusLostKeepsFirst ==
    [][lastEnqueue'.producer = "lost" =>
           /\ sessionBuffer' = sessionBuffer
           /\ AwayOpen(focusAwayStartTime')
           /\ AwayOpen(focusAwayStartTime) => focusAwayStartTime' = focusAwayStartTime
           /\ ~AwayOpen(focusAwayStartTime) => focusAwayStartTime' = <<dateNow>>]_vars

\* A second focus-lost event came later than the first, with an event in the
\* buffer, and the start is still the first one's.
C28_Witness ==
    /\ LastHandler("lost")
    /\ AwayOpen(focusAwayStartTime)
    /\ focusAwayStartTime[1] < dateNow
    /\ sessionBuffer # <<>>

\* C29: handleFocusRegained, called while an away period is open, clears
\* focusAwayStartTime and appends to the buffer one focusChange event with
\* fileView 'Focus Away (Major)' when the period lasted FOCUS_THRESHOLD_MS
\* or more, and nothing when it lasted less; called while none is open it
\* changes neither the field nor the buffer.
C29_FocusRegainedLogsMajor ==
    [][lastEnqueue'.producer = "regained" =>
           IF AwayOpen(focusAwayStartTime)
           THEN /\ focusAwayStartTime' = <<>>
                /\ IF dateNow - focusAwayStartTime[1] >= FOCUS_THRESHOLD_MS
                   THEN /\ Len(sessionBuffer') = Len(sessionBuffer) + 1
                        /\ SubSeq(sessionBuffer', 1, Len(sessionBuffer)) = sessionBuffer
                        /\ sessionBuffer'[Len(sessionBuffer')].eventType = "focusChange"
                        /\ sessionBuffer'[Len(sessionBuffer')].fileView = "Focus Away (Major)"
                   ELSE sessionBuffer' = sessionBuffer
           ELSE UNCHANGED <<focusAwayStartTime, sessionBuffer>>]_vars

\* An away period of exactly the threshold was logged behind an earlier event.
C29_Witness ==
    /\ LastHandler("regained")
    /\ focusAwayStartTime = <<>>
    /\ Len(sessionBuffer) = 2
    /\ sessionBuffer[2].flightTime = FOCUS_THRESHOLD_MS
    /\ sessionBuffer[2].time = dateNow

----------------------------------------------------------------------------
(* The size labels of the deletion entries *)

\* stat.size values around the limits of formatSize: an empty file, the
\* sizes next to 1 KB, 1 MB and 1 GB, and sizes whose two decimals round.
SizeSamples ==
    {0, 1, KB - 1, KB, KB + 5, KB + 6, KB * KB - 1, KB * KB, (5 * KB * KB) \div 2,
     KB * KB * KB - 1, KB * KB * KB, KB * KB * KB + (KB * KB * KB) \div 2}

\* The index entries a log file can have when it is deleted: none (the stat
\* of init or of a create event failed, or an earlier deletion removed it)
\* or the size of its last stat.
IndexSamples == {NoEntry} \cup {Indexed(size) : size \in SizeSamples}

\* The running extension with its watchers, the index holding the sizes that
\* the log files had when they were last indexed.
InitSizes ==
    /\ phase = "active"
    /\ initialized = TRUE
    /\ sessionFile = Encrypted(InitialData)
    /\ watching = TRUE
    /\ otherLogs = [n \in OtherNames |-> OldLog]
    /\ fileIndex \in [LogNames -> IndexSamples]
    /\ hiddenLog = FreshLedger
    /\ InitCommon

\* Deletions of log files and the guardian's reactions to them.
NextSizes ==
    \/ \E name \in LogNames : ExternalDelete(name)
    \/ \E name \in LogNames : LogDeletedStart(name)
    \/ LedgerReadDone
    \/ LedgerWriteDone
    \/ RecreateDone

SpecSizes == InitSizes /\ [][NextSizes]_vars

----------------------------------------------------------------------------
(* Claims on the size labels *)

\* The deletion entries built so far: those of the suspended handlers and
\* those in the ledger, each with the size it was built from.
LabelledSizes ==
    {[bytes |-> r.recorded, label |-> r.entry.lastKnownSize] :
        r \in {x \in reactions : x.kind = "logDeleted"}}
    \cup (IF lastReaction.kind = "logDeleted"
          THEN {[bytes |-> lastReaction.recorded,
                 label |-> lastReaction.entry.lastKnownSize]}
          ELSE {})

\* label shows bytes in units of scale * KB bytes to within a hundredth.
ShowsIn(label, bytes, scale) ==
    LET d == label.hundredths * KB - 100 * (bytes \div scale)
    IN  /\ label.decimals = 2
        /\ 0 - (KB \div 2) <= d
        /\ d < KB \div 2 + 100

\* The label the entry of a file of that many bytes has below 1024 bytes.
OneKB(label) == label.hundredths = 100 /\ label.decimals = 0 /\ label.unit = "KB"
ZeroKB(label) == label.hundredths = 0 /\ label.decimals = 0 /\ label.unit = "KB"

\* The label of a size of 1024 bytes or more: KB below 1024^2 bytes, MB
\* below 1024^3 bytes, GB from there on.
LargeLabel(label, bytes) ==
    IF bytes < KB * KB THEN label.unit = "KB" /\ ShowsIn(label, bytes, 1)
    ELSE IF bytes \div KB < KB * KB THEN label.unit = "MB" /\ ShowsIn(label, bytes, KB)
    ELSE label.unit = "GB" /\ ShowsIn(label, bytes, KB * KB)

\* C27, as the code has it: the size label of a deletion entry is '0 KB' for
\* a last-known size of zero, which an unknown size defaults to, '1 KB' for
\* 1 to 1023 bytes, and otherwise the size in KB, MB or GB with two decimals.
C27_SizeLabel ==
    \A e \in LabelledSizes :
        IF e.bytes = 0 THEN ZeroKB(e.label)
        ELSE IF e.bytes < KB THEN OneKB(e.label)
        ELSE LargeLabel(e.label, e.bytes)

\* C27, as stated: the size label of a deletion entry is '1 KB' for every
\* last-known size below 1024 bytes, an unknown size counting as zero, and
\* otherwise the size in KB, MB or GB.
C27_SizeLabelAsStated ==
    \A e \in LabelledSizes :
        IF e.bytes < KB THEN OneKB(e.label)
        ELSE LargeLabel(e.label, e.bytes)

\* The entries of a file of 1023 bytes and of a file of unknown size are
\* being appended.
C27_Witness ==
    /\ \E e \in LabelledSizes : e.bytes = KB - 1 /\ OneKB(e.label)
    /\ \E r \in reactions :
           /\ r.kind = "logDeleted"
           /\ ~fileIndex[r.name].known
           /\ ZeroKB(r.entry.lastKnownSize)

----------------------------------------------------------------------------
(* encrypt and decrypt *)

\* The model's byte has two bits.
Byte == 0 .. 3

\* Bytes of a cipher block and of the IV (IV_LENGTH and the AES block, 16 in
\* the program).
BlockBytes == 2

\* Bytes of the longest text that is encrypted.
MaxTextLen == 3

\* a XOR b
Xor(a, b) == 2 * (((a \div 2) + (b \div 2)) % 2) + ((a + b) % 2)

XorBlock(x, y) == [i \in 1 .. BlockBytes |-> Xor(x[i], y[i])]

Blocks == [1 .. BlockBytes -> Byte]

\* A block as a number and back.
RECURSIVE BlockNumber(_)
BlockNumber(bytes) ==
    IF bytes = <<>> THEN 0
    ELSE 4 * BlockNumber(SubSeq(bytes, 1, Len(bytes) - 1)) + bytes[Len(bytes)]

\* The block cipher under KEY: a permutation of the blocks, and its inverse.
EncryptBlock(block) ==
    CHOOSE c \in Blocks :
        BlockNumber(c) = (5 * BlockNumber(block) + 3) % Cardinality(Blocks)

DecryptBlock(block) == CHOOSE p \in Blocks : EncryptBlock(p) = block

\* The padding cipher.final() adds: n bytes of value n, n from 1 to the
\* block length, up to the next multiple of the block length.
Pad(text) ==
    LET n == BlockBytes - (Len(text) % BlockBytes)
    IN  text \o [i \in 1 .. n |-> n]

\* decipher.final(): the text without its padding, or the throw on a last
\* byte that is no padding length or on padding bytes that differ from it.
Unpad(padded) ==
    LET n == padded[Len(padded)]
    IN  IF /\ n \in 1 .. BlockBytes
           /\ \A i \in Len(padded) - n + 1 .. Len(padded) : padded[i] = n
        THEN [ok |-> TRUE, text |-> SubSeq(padded, 1, Len(padded) - n)]
        ELSE [ok |-> FALSE]

\* Block k of a sequence of whole blocks.
BlockAt(bytes, k) == SubSeq(bytes, (k - 1) * BlockBytes + 1, k * BlockBytes)

\* CBC encryption of whole blocks: each is XORed with the cipher block
\* before it, the first with the IV.
RECURSIVE CbcEncrypt(_, _)
CbcEncrypt(padded, previous) ==
    IF padded = <<>> THEN <<>>
    ELSE LET c == EncryptBlock(XorBlock(BlockAt(padded, 1), previous))
         IN  c \o CbcEncrypt(SubSeq(padded, BlockBytes + 1, Len(padded)), c)

\* CBC decryption of whole blocks.
RECURSIVE CbcDecrypt(_, _)
CbcDecrypt(content, previous) ==
    IF content = <<>> THEN <<>>
    ELSE LET c == BlockAt(content, 1)
         IN  XorBlock(DecryptBlock(c), previous)
                 \o CbcDecrypt(SubSeq(content, BlockBytes + 1, Len(content)), c)

\* StorageManager.encrypt, iv being crypto.randomBytes(IV_LENGTH): the IV
\* followed by the ciphertext. The text is the bytes of its UTF-8 encoding.
encrypt(text, iv) == iv \o CbcEncrypt(Pad(text), iv)

\* StorageManager.decrypt: the text, or the throw of createDecipheriv on a
\* short IV and of decipher.final() on a content that is empty, no whole
\* number of blocks or badly padded.
decrypt(buffer) ==
    IF Len(buffer) < BlockBytes THEN [ok |-> FALSE]
    ELSE LET iv == SubSeq(buffer, 1, BlockBytes)
             content == SubSeq(buffer, BlockBytes + 1, Len(buffer))
         IN  IF content = <<>> \/ Len(content) % BlockBytes # 0 THEN [ok |-> FALSE]
             ELSE Unpad(CbcDecrypt(content, iv))

\* The texts that are encrypted.
Texts == UNION {[1 .. n -> Byte] : n \in 0 .. MaxTextLen}

\* What can happen to a blob on the disk: one byte changes, or the last
\* byte is lost.
Corruptions(blob) ==
    ({[blob EXCEPT ![i] = b] : i \in 1 .. Len(blob), b \in Byte} \ {blob})
        \cup {SubSeq(blob, 1, Len(blob) - 1)}

\* What a step of the codec leaves alone.
CodecFrame ==
    /\ NoTrigger /\ NoPush /\ NoEnd
    /\ lastReaction' = NoReaction
    /\ lastResult' = NoResult
    /\ UNCHANGED <<phase, initialized, memVars, enqueued, sessionFile, faults,
                   gstate, rvars, dateNow, focusAwayStartTime, tvars>>

\* encrypt(text) with a fresh IV.
Encrypt ==
    /\ codec.stage = "text"
    /\ \E iv \in Blocks :
           codec' = [stage |-> "blob", text |-> codec.text, iv |-> iv,
                     blob |-> encrypt(codec.text, iv), corrupted |-> FALSE]
    /\ CodecFrame

\* The blob is corrupted where it is stored.
CorruptBlob ==
    /\ codec.stage = "blob"
    /\ ~codec.corrupted
    /\ \E bad \in Corruptions(codec.blob) :
           codec' = [codec EXCEPT !.blob = bad, !.corrupted = TRUE]
    /\ CodecFrame

\* decrypt(blob)
Decrypt ==
    /\ codec.stage = "blob"
    /\ codec' = [stage |-> "done", text |-> codec.text, iv |-> codec.iv,
                 blob |-> codec.blob, corrupted |-> codec.corrupted,
                 result |-> decrypt(codec.blob)]
    /\ CodecFrame

\* A text is about to be encrypted.
InitCodec ==
    /\ phase = "active"
    /\ initialized = TRUE
    /\ sessionFile = Encrypted(InitialData)
    /\ watching = FALSE
    /\ otherLogs = NoOtherLogs
    /\ fileIndex = IndexAfterInit(NoOtherLogs, Encrypted(InitialData))
    /\ hiddenLog = FreshLedger
    /\ InitMemory
    /\ storageDir = [name \in DirNames |-> Absent]
    /\ codec \in {[stage |-> "text", text |-> text] : text \in Texts}

NextCodec ==
    \/ Encrypt
    \/ CorruptBlob
    \/ Decrypt

SpecCodec == InitCodec /\ [][NextCodec]_vars

----------------------------------------------------------------------------
(* Claims on encrypt and decrypt *)

\* decrypt(encrypt(x)) = x: a blob that nothing touched decrypts to its text.
RoundTrip ==
    codec.stage = "done" /\ ~codec.corrupted =>
        codec.result.ok /\ codec.result.text = codec.text

\* A change of the IV alone, the text filling a block or more, is not
\* noticed, whatever the block cipher: the first block of the text comes
\* out changed and the padding, which is in the last block, is as it was.
IvChangeUnnoticed ==
    /\ codec.stage = "done"
    /\ codec.corrupted
    /\ Len(codec.text) >= BlockBytes
    /\ Len(codec.blob) = Len(encrypt(codec.text, codec.iv))
    /\ SubSeq(codec.blob, BlockBytes + 1, Len(codec.blob))
           = SubSeq(encrypt(codec.text, codec.iv), BlockBytes + 1, Len(codec.blob))
    => /\ codec.result.ok
       /\ codec.result.text # codec.text
       /\ SubSeq(codec.result.text, BlockBytes + 1, Len(codec.text))
              = SubSeq(codec.text, BlockBytes + 1, Len(codec.text))

\* C26: decrypt returns the text that encrypt was given, and decrypt of a
\* blob that was corrupted after encrypt throws.
C26_RoundTripAndCorruption ==
    /\ RoundTrip
    /\ codec.stage = "done" /\ codec.corrupted => ~codec.result.ok

----------------------------------------------------------------------------
(* Claims on the conservation of events *)

\* How many of the three places hold event e: the buffer, the batch of a
\* flush in flight, the events array on disk.
PlacesOf(e) ==
    (IF e \in Range(sessionBuffer) THEN 1 ELSE 0)
    + (IF e \in InFlightEvents THEN 1 ELSE 0)
    + (IF e \in Range(DiskEvents) THEN 1 ELSE 0)

RECURSIVE IsSubsequence(_, _)
IsSubsequence(s, t) ==
    IF s = <<>> THEN TRUE
    ELSE IF t = <<>> THEN FALSE
    ELSE IF Head(s) = Head(t) THEN IsSubsequence(Tail(s), Tail(t))
    ELSE IsSubsequence(s, Tail(t))

\* The enqueued events that are nowhere any more: a race has dropped them.
DroppedEvents == {e \in Range(enqueued) : PlacesOf(e) = 0}

\* C33: whatever the order of enqueues, flushes, outside deletions and the
\* guardian's reactions, the events array of the session file on disk is the
\* enqueue sequence with some events left out: no event is there twice and
\* none before an event that was enqueued earlier.
C33_DiskIsSubsequence ==
    /\ NoDuplicates(DiskEvents)
    /\ IsSubsequence(DiskEvents, enqueued)

\* A race has dropped the first event, and the second is on disk.
C33_Witness ==
    /\ Len(enqueued) = 2
    /\ enqueued[1] \in DroppedEvents
    /\ DiskEvents = <<enqueued[2]>>
    /\ deletions # <<>>

----------------------------------------------------------------------------
(* Claims on the races of the guardian *)

\* C34: the recreation that ends the reaction to a deletion of the session
\* log removes no event from the file: a batch that a flush wrote after the
\* deletion (its read having come before it) is in the file after the
\* recreation as well.
C34_RecreationKeepsBatch ==
    [][/\ lastReaction'.kind = "logDeleted"
       /\ lastReaction'.name = SessionName
       /\ lastReaction'.recreated
       => Range(DiskEvents) \subseteq Range(DiskEvents')]_vars

\* The files whose deletion the ledger records.
RecordedFiles ==
    {LedgerDeletions(hiddenLog)[i].deletedFile : i \in 1..Len(LedgerDeletions(hiddenLog))}

\* C35: when two log files have been deleted and the reactions to both
\* deletions have completed, in whatever order their reads and writes of the
\* ledger came, the ledger holds the DeletionEntry of both files.
C35_BothDeletionsRecorded ==
    (/\ Range(deletions) = LogNames
     /\ \A name \in LogNames : ~Pending("delete", name)
     /\ reactions = {})
    => LogNames \subseteq RecordedFiles

\* The 'Hidden log file deleted' notes that the ledger holds.
HiddenNotes ==
    {LedgerDeletions(hiddenLog)[i] : i \in
        {j \in 1..Len(LedgerDeletions(hiddenLog)) :
            "note" \in DOMAIN LedgerDeletions(hiddenLog)[j]}}

\* C36: every 'Hidden log file deleted' note of the ledger is about the
\* ledger file: the deletion of another file of the hidden directory adds no
\* entry.
C36_NotesOnlyForLedger ==
    \A e \in HiddenNotes : e.file = LedgerName

----------------------------------------------------------------------------
(* Claims on deactivate *)

\* C37: once deactivate has run, no event is left in the buffer: the
\* clean-shutdown marker, the final focusDuration event and whatever was in
\* the buffer before are in the batch of a storageManager.flush call or
\* behind one, also when a flush was in flight when deactivate ran.
C37_DeactivateHandsOverAll ==
    phase = "stopped" => sessionBuffer = <<>>

----------------------------------------------------------------------------
(* Claims on the validity of the session file *)

\* file decrypts and parses to an object with an events array.
ValidLog(file) ==
    /\ Decrypts(file)
    /\ "events" \in DOMAIN file.json
    /\ DOMAIN file.json.events = 1..Len(file.json.events)

\* C38: nothing outside corrupting the file, the session log is at every
\* moment either absent or a file that decrypts and parses to an object with
\* an events array: the file init created, and every file that an append of
\* flush or a recreation of the guardian has written since.
C38_SessionFileAbsentOrValid ==
    sessionFile.exists => ValidLog(sessionFile)

\* The session log was deleted and recreated, and a flush has appended to
\* the recreated file.
C38_Witness ==
    /\ SessionName \in Range(deletions)
    /\ ValidLog(sessionFile)
    /\ "recreationNotice" \in DOMAIN sessionFile.json
    /\ Len(sessionFile.json.events) = 1
    /\ inflight = {}
    /\ reactions = {}

----------------------------------------------------------------------------
(* The interruption tracker *)

\* opts.inactivityThresholdMs, as activate passes it.
inactivityThresholdMs == 5 * 60 * 1000

\* Idle periods' worth of time that one run of the tracker covers.
MaxIdlePeriods == 1

\* The milliseconds that pass between two steps of the tracker: one less
\* than the threshold, and the threshold.
IdleSteps == {inactivityThresholdMs - 1, inactivityThresholdMs}

\* The event logMarker pushes; message is what follows '[INTERRUPTION] ' in
\* fileView (without the source of a resume and the duration of a pause).
MarkerEvent(message, t) ==
    [time |-> t, eventType |-> "focusChange", fileView |-> "[INTERRUPTION]",
     message |-> message]

\* tracker.logMarker(message) followed by void flushBuffer(), on memory m.
LogAndFlush(m, message) == FlushBufferEnter(Push(m, MarkerEvent(message, m.pushed + 1)))

\* tracker.logMarker(message) alone.
LogOnly(m, message) == Push(m, MarkerEvent(message, m.pushed + 1))

\* The markers of the running process with message appended.
Logged(runs, messages) ==
    [runs EXCEPT ![Len(runs)].markers = @ \o messages]

\* What readState returns for the state file: null for a file that is
\* missing (or does not parse to the two fields).
ReadState(file) ==
    IF file.exists THEN [null |-> FALSE, cleanShutdown |-> file.cleanShutdown]
    ELSE [null |-> TRUE]

\* The file that writeState({ cleanShutdown, lastSeenMs }) writes.
StateWritten(cleanShutdown) == [exists |-> TRUE, cleanShutdown |-> cleanShutdown]

\* Mutant: an abnormal end is reported whenever a state file is found.
AbnormalEndWheneverState(st) == ~st.null

\* detectAbnormalEndOnStartup: st && st.cleanShutdown === false
AbnormalEnd(st) == ~st.null /\ st.cleanShutdown = FALSE

\* new SessionInterruptionTracker(...), suspended in detectAbnormalEndOnStartup.
NewTracker(now) ==
    [pc |-> "detect", paused |-> FALSE, lastActivityMs |-> now, timer |-> FALSE,
     listeners |-> FALSE, log |-> <<>>]

\* What a step of the tracker leaves alone.
TrackerFrame ==
    /\ NoEnd
    /\ lastReaction' = NoReaction
    /\ lastResult' = NoResult
    /\ UNCHANGED <<initialized, sessionFile, faults, gstate, rvars, focusAwayStartTime, codec>>

\* The memory and the histories after a step that left memory m and pushed
\* the markers messages, its last flushBuffer call having been made on last.
TrackerPushed(m, messages, last) ==
    /\ SetMem(m)
    /\ enqueued' = enqueued \o
           [i \in 1 .. Len(messages) |-> MarkerEvent(messages[i], Len(enqueued) + i)]
    /\ trackerRuns' = Logged(trackerRuns, messages)
    /\ lastEnqueue' = [producer |-> "tracker",
                       reached |-> Len(m.sessionBuffer) >= FLUSH_THRESHOLD,
                       flushCalled |-> TRUE]
    /\ lastTrigger' = TriggerResult(last)

\* SessionInterruptionTracker.install up to its first await: it returns at
\* once when an instance is set, and otherwise makes a tracker and suspends in
\* the readFile of readState.
InstallCall(id) ==
    /\ phase = "active"
    /\ trackers[id].pc = "none"
    /\ \A other \in 1 .. id - 1 : trackers[other].pc # "none"
    /\ trackers' = [trackers EXCEPT ![id] =
                        IF instance # 0 THEN [pc |-> "refused"] ELSE NewTracker(dateNow)]
    /\ NoTrigger /\ NoPush
    /\ UNCHANGED <<phase, memVars, enqueued, dateNow, instance, stateFile, stateWrites,
                   trackerRuns>>
    /\ TrackerFrame

\* readState resolves: detectAbnormalEndOnStartup logs the abnormal end of
\* the run before (and calls flushBuffer) or not, install logs 'Session
\* Started' and suspends in writeState.
InstallDetected(id) ==
    LET abnormal == AbnormalEnd(ReadState(stateFile))
        m1 == IF abnormal THEN LogAndFlush(Mem, "Session End Detected") ELSE Mem
        m2 == LogOnly(m1, "Session Started")
    IN  /\ trackers[id].pc = "detect"
        /\ trackers' = [trackers EXCEPT ![id].pc = "writeState"]
        /\ TrackerPushed(m2,
               IF abnormal THEN <<"Session End Detected", "Session Started">>
               ELSE <<"Session Started">>,
               IF abnormal THEN LogOnly(Mem, "Session End Detected") ELSE m2)
        /\ UNCHANGED <<phase, dateNow, instance, stateFile, stateWrites>>
        /\ TrackerFrame

\* The writeState of install settles (a failure is swallowed): flushBuffer is
\* called, the activity listeners are registered, the inactivity timer is
\* started and the instance is set.
InstallWritten(id) ==
    \E ok \in BOOLEAN :
        /\ trackers[id].pc = "writeState"
        /\ stateFile' = IF ok THEN StateWritten(FALSE) ELSE stateFile
        /\ trackers' = [trackers EXCEPT ![id].pc = "installed",
                                        ![id].listeners = TRUE,
                                        ![id].timer = TRUE]
        /\ instance' = id
        /\ SetMem(FlushBufferEnter(Mem))
        /\ lastTrigger' = TriggerResult(Mem)
        /\ NoPush
        /\ UNCHANGED <<phase, enqueued, dateNow, stateWrites, trackerRuns>>
        /\ TrackerFrame

\* Mutant: every activity signal logs a resume.
ResumesAlways(paused) == TRUE

\* recordActivitySignal: if (this.paused)
Resumes(paused) == paused

\* One of the listeners of tracker id calls recordActivitySignal.
ActivitySignal(id) ==
    LET resumed == Resumes(trackers[id].paused)
    IN  /\ phase = "active"
        /\ trackers[id].pc = "installed"
        /\ trackers[id].listeners
        /\ trackers' = [trackers EXCEPT
               ![id].lastActivityMs = dateNow,
               ![id].paused = IF resumed THEN FALSE ELSE @,
               ![id].log = IF resumed THEN Append(@, "Session Resumed") ELSE @]
        /\ IF resumed
           THEN TrackerPushed(LogAndFlush(Mem, "Session Resumed"), <<"Session Resumed">>,
                              LogOnly(Mem, "Session Resumed"))
           ELSE NoTrigger /\ NoPush /\ UNCHANGED <<memVars, enqueued, trackerRuns>>
        /\ stateWrites' = stateWrites \cup {FALSE}
        /\ UNCHANGED <<phase, dateNow, instance, stateFile>>
        /\ TrackerFrame

\* Mutant: the monitor pauses one millisecond early.
PausesEarly(paused, inactiveFor) == ~paused /\ inactiveFor >= inactivityThresholdMs - 1

\* The callback of startInactivityMonitor:
\* !this.paused && inactiveFor >= this.inactivityThresholdMs
Pauses(paused, inactiveFor) == ~paused /\ inactiveFor >= inactivityThresholdMs

\* The inactivity timer of tracker id fires.
MonitorTick(id) ==
    LET pauses == Pauses(trackers[id].paused, dateNow - trackers[id].lastActivityMs)
    IN  /\ phase = "active"
        /\ trackers[id].pc = "installed"
        /\ trackers[id].timer
        /\ trackers' = [trackers EXCEPT
               ![id].paused = IF pauses THEN TRUE ELSE @,
               ![id].log = IF pauses THEN Append(@, "Session Paused") ELSE @]
        /\ IF pauses
           THEN /\ TrackerPushed(LogAndFlush(Mem, "Session Paused"), <<"Session Paused">>,
                                 LogOnly(Mem, "Session Paused"))
                /\ stateWrites' = stateWrites \cup {FALSE}
           ELSE /\ NoTrigger /\ NoPush
                /\ UNCHANGED <<memVars, enqueued, trackerRuns, stateWrites>>
        /\ UNCHANGED <<phase, dateNow, instance, stateFile>>
        /\ TrackerFrame

\* Time passes between two steps of the tracker.
IdleTimePasses ==
    /\ dateNow <= MaxIdlePeriods * inactivityThresholdMs
    /\ \E d \in IdleSteps : dateNow' = dateNow + d
    /\ NoTrigger /\ NoPush
    /\ UNCHANGED <<phase, memVars, enqueued, tvars>>
    /\ TrackerFrame

\* deactivate() with the tracker's part spelled out: markCleanShutdown (a
\* return when no instance is set; else the marker, flushBuffer and a
\* writeState that nothing awaits), the focusDuration event when a file is
\* focused, and a last flushBuffer call.
DeactivateTracked ==
    \E focused \in BOOLEAN :
        LET m1 == IF instance # 0 THEN LogAndFlush(Mem, "Session Ended (Clean Shutdown)")
                  ELSE Mem
            m2 == IF focused THEN Push(m1, MakeEvent("deactivate", m1.pushed + 1)) ELSE m1
            m3 == FlushBufferEnter(m2)
            marker == IF instance # 0
                      THEN <<MarkerEvent("Session Ended (Clean Shutdown)", Len(enqueued) + 1)>>
                      ELSE <<>>
            dur == IF focused THEN <<MakeEvent("deactivate", m1.pushed + 1)>> ELSE <<>>
        IN  /\ phase = "active"
            /\ phase' = "stopped"
            /\ SetMem(m3)
            /\ enqueued' = enqueued \o marker \o dur
            /\ trackerRuns' = [trackerRuns EXCEPT
                   ![Len(trackerRuns)].clean = TRUE,
                   ![Len(trackerRuns)].markers =
                       IF instance # 0 THEN Append(@, "Session Ended (Clean Shutdown)") ELSE @]
            /\ stateWrites' = IF instance # 0 THEN stateWrites \cup {TRUE} ELSE stateWrites
            /\ lastEnqueue' = [producer |-> "deactivate",
                               reached |-> Len(m2.sessionBuffer) >= FLUSH_THRESHOLD,
                               flushCalled |-> TRUE]
            /\ lastTrigger' = TriggerResult(m2)
            /\ UNCHANGED <<dateNow, instance, trackers, stateFile>>
            /\ TrackerFrame

\* The writeFile of a writeState call that nothing awaits settles (a failure
\* is swallowed).
StateWriteLands ==
    \E cleanShutdown \in stateWrites, ok \in BOOLEAN :
        /\ stateFile' = IF ok THEN StateWritten(cleanShutdown) ELSE stateFile
        /\ stateWrites' = stateWrites \ {cleanShutdown}
        /\ NoTrigger /\ NoPush
        /\ UNCHANGED <<phase, memVars, enqueued, dateNow, instance, trackers, trackerRuns>>
        /\ TrackerFrame

\* The process ends, after deactivate or without it, and VS Code starts the
\* extension again: what was in memory and the writes that had not reached
\* the file are gone, and activate has run storageManager.init for the new
\* session.
TrackerProcessEnds ==
    /\ Len(trackerRuns) < MaxTrackerRuns
    /\ phase' = "active"
    /\ sessionBuffer' = <<>>
    /\ isFlushing' = FALSE
    /\ inflight' = {}
    /\ instance' = 0
    /\ trackers' = [id \in 1 .. MaxInstalls |-> NoTracker]
    /\ stateWrites' = {}
    /\ trackerRuns' = Append(trackerRuns, NoMarkers)
    /\ sessionFile' = Encrypted(InitialData)
    /\ NoTrigger /\ NoPush /\ NoEnd
    /\ lastReaction' = NoReaction
    /\ lastResult' = NoResult
    /\ UNCHANGED <<initialized, enqueued, faults, gstate, rvars, dateNow,
                   focusAwayStartTime, codec, stateFile>>

\* The tracker in one process: install calls, activity signals, the
\* inactivity timer, time, and the flushes the markers start.
NextTracker ==
    \/ \E id \in 1 .. MaxInstalls : InstallCall(id)
    \/ \E id \in 1 .. MaxInstalls : InstallDetected(id)
    \/ \E id \in 1 .. MaxInstalls : InstallWritten(id)
    \/ \E id \in 1 .. MaxInstalls : ActivitySignal(id)
    \/ \E id \in 1 .. MaxInstalls : MonitorTick(id)
    \/ IdleTimePasses
    \/ ReadDone
    \/ WriteDone

SpecTracker == InitActive /\ [][NextTracker]_vars

\* The tracker over several processes: install, activity signals, deactivate,
\* the state file's writes, and the end of the process.
NextTrackerRuns ==
    \/ \E id \in 1 .. MaxInstalls : InstallCall(id)
    \/ \E id \in 1 .. MaxInstalls : InstallDetected(id)
    \/ \E id \in 1 .. MaxInstalls : InstallWritten(id)
    \/ \E id \in 1 .. MaxInstalls : ActivitySignal(id)
    \/ DeactivateTracked
    \/ StateWriteLands
    \/ TrackerProcessEnds
    \/ ReadDone
    \/ WriteDone

SpecTrackerRuns == InitActive /\ [][NextTrackerRuns]_vars

----------------------------------------------------------------------------
(* Claims on the interruption tracker *)

\* The pause and resume markers in log alternate, the first being a pause.
Alternating(log) ==
    \A i \in 1 .. Len(log) :
        log[i] = (IF i % 2 = 1 THEN "Session Paused" ELSE "Session Resumed")

\* The trackers that install has made.
Made == {id \in 1 .. MaxInstalls : trackers[id].pc \in {"detect", "writeState", "installed"}}

\* The pause and resume markers of every tracker alternate, and its paused
\* flag is set exactly when the last of them is a pause.
PausedFollowsMarkers ==
    \A id \in Made :
        /\ Alternating(trackers[id].log)
        /\ trackers[id].paused <=>
               (trackers[id].log # <<>>
                /\ trackers[id].log[Len(trackers[id].log)] = "Session Paused")

\* A step in which tracker id logs a pause starts with the tracker not paused
\* and idle for the threshold or longer; one in which it logs a resume starts
\* with the tracker paused.
MarkerOnlyWhenDue ==
    \A id \in Made :
        (id \in Made' /\ Len(trackers'[id].log) > Len(trackers[id].log)) =>
            /\ Len(trackers'[id].log) = Len(trackers[id].log) + 1
            /\ IF trackers'[id].log[Len(trackers'[id].log)] = "Session Paused"
               THEN /\ ~trackers[id].paused
                    /\ dateNow - trackers[id].lastActivityMs >= inactivityThresholdMs
               ELSE trackers[id].paused

\* C39: the pause and resume markers of the interruption tracker strictly
\* alternate, starting with a pause; a pause is logged only when the tracker is
\* not paused and the inactivity has reached the threshold, a resume only on
\* an activity signal while paused, and the paused flag is true exactly when
\* the last of these markers is a pause.
C39_PauseResumeAlternate == [](PausedFollowsMarkers) /\ [][MarkerOnlyWhenDue]_vars

\* A tracker has paused after an idle period and resumed on an activity
\* signal.
C39_Witness ==
    \E id \in Made :
        /\ trackers[id].log = <<"Session Paused", "Session Resumed">>
        /\ ~trackers[id].paused
        /\ trackers[id].lastActivityMs = dateNow

\* The trackers of this process whose inactivity timer runs, and those whose
\* activity listeners are registered.
WithTimer == {id \in Made : trackers[id].pc = "installed" /\ trackers[id].timer}

WithListeners == {id \in Made : trackers[id].pc = "installed" /\ trackers[id].listeners}

\* The 'Session Started' markers that this process has logged.
StartedMarkers ==
    LET markers == trackerRuns[Len(trackerRuns)].markers
    IN  {i \in 1 .. Len(markers) : markers[i] = "Session Started"}

\* C40: install installs at most one tracker per process: however its calls
\* overlap, the process logs at most one 'Session Started' marker, starts at
\* most one inactivity timer and registers at most one set of activity
\* listeners.
C40_AtMostOneTracker ==
    /\ Cardinality(StartedMarkers) <= 1
    /\ Cardinality(WithTimer) <= 1
    /\ Cardinality(WithListeners) <= 1

\* The places of message among the markers that process k has logged.
MarkersOf(k, message) ==
    {i \in 1 .. Len(trackerRuns[k].markers) : trackerRuns[k].markers[i] = message}

\* C31: the tracker logs the abnormal-end marker at startup only if the
\* process before did not shut down cleanly: after a process in which
\* markCleanShutdown logged the clean shutdown, the next process logs no
\* abnormal end, whatever activity signals and writes of the state file were
\* pending at shutdown.
C31_NoAbnormalEndAfterClean ==
    \A k \in 2 .. Len(trackerRuns) :
        MarkersOf(k - 1, "Session Ended (Clean Shutdown)") # {} =>
            MarkersOf(k, "Session End Detected") = {}

\* The other half of what the tracker is for: after a process that logged
\* its start and ended without deactivate, the next process, once its install
\* has read the state file, has logged the abnormal end once.
OneAbnormalEndAfterCrash ==
    \A k \in 2 .. Len(trackerRuns) :
        (/\ ~trackerRuns[k - 1].clean
         /\ MarkersOf(k - 1, "Session Started") # {}
         /\ MarkersOf(k, "Session Started") # {}) =>
            Cardinality(MarkersOf(k, "Session End Detected")) = 1

====
